---- MODULE Spec2Model ----
(***************************************************************************)
(* ECG Miner: the digitisation pipeline (Digitizer, Preprocessor,          *)
(* SignalExtractor, Postprocessor) as a state machine.                     *)
(*                                                                         *)
(* A binary image is a record [width, height, ink]: ink[c+1] is the set of *)
(* black rows of column c (rows and columns are 0-based as in the code).   *)
(* A cluster (a run of consecutive black rows of one column) is the pair   *)
(* <<first row, last row>>.  Python's None is the empty tuple <<>>, and an  *)
(* optional integer (interpolation, cut) is None or <<i>>.                  *)
(* Scores of the tracer are kept multiplied by 10, so that the term        *)
(* N / 10 * g of the cost is the integer N * g (exact arithmetic).         *)
(***************************************************************************)
EXTENDS Integers, Sequences, FiniteSets, TLC

VARIABLES
    pc,          \* position of the invocation in the pipeline
    cfg,         \* configuration given to Digitizer.__init__
    n,           \* SignalExtractor.__n
    page,        \* what the input file and the image library yield
    ecg,         \* the cropped binary image (ecg_crop)
    rect,        \* the crop rectangle
    rois,        \* rows of the regions of interest
    cache,       \* the tracer's cache, in insertion order
    col,         \* loop variable of extract_signals
    raw_signals, \* polylines returned by extract_signals
    pulse_pos,   \* __segment: state of the pulse walk
    ini_count,   \* __segment: counter of baseline columns
    cut,         \* __segment: None until found, then <<index of the cut>>
    step,        \* __segment: number of indices of `direction` consumed
    signals,     \* __segment: waveform part of each polyline
    ref_pulses,  \* __segment: (volt_0, volt_1) of each row
    data,        \* __vectorize: the sample table
    writes,      \* __vectorize: number of writes into each lead column
    files,       \* output files written by this invocation
    trace,       \* the overlay image returned by __get_trace
    saved,       \* the image written to <base>_trace.png
    err,         \* the exception that ended the invocation ("none" if none)
    model,       \* app.model.Model: digitizing, ecg_paths, digitized flags
    view,        \* app.view.View: which controls are enabled
    active_threads, \* Controller.__active_threads
    threads,     \* the Thread workers handed to the pool, in order of creation
    queue,       \* signals emitted by workers, not yet delivered to the GUI
    gui_err,     \* the last exception raised inside a handler of the GUI
    clusters,    \* __gap: the two clusters given, <<pc, c>>
    white_space, \* __gap: None, then <<the value returned>>
    chart,       \* __outline_borders: the binary image given
    stage,       \* __outline_borders: the position inside the function
    cleaned,     \* __outline_borders: the image after the border loops
    outlined     \* __outline_borders: the image returned

digitVars == <<pc, cfg, n, page, ecg, rect, rois, cache, col, raw_signals,
               pulse_pos, ini_count, cut, step, signals, ref_pulses, data,
               writes, files, trace, saved, err>>

batchVars == <<model, view, active_threads, threads, queue, gui_err>>

unitVars == <<clusters, white_space, chart, stage, cleaned, outlined>>

vars == <<digitVars, batchVars, unitVars>>

None == <<>>

Abs(x) == IF x < 0 THEN -x ELSE x

Max2(a, b) == IF a >= b THEN a ELSE b

SeqRange(s) == {s[i] : i \in 1..Len(s)}

\* The elements of a finite set of integers in increasing order.
RECURSIVE SortedSeq(_)
SortedSeq(S) ==
    IF S = {} THEN <<>>
    ELSE LET m == CHOOSE x \in S : \A y \in S : x <= y
         IN  <<m>> \o SortedSeq(S \ {m})

(***************************************************************************)
(* Preprocessor                                                            *)
(***************************************************************************)

BORDER == 10

SetMin(S) == CHOOSE m \in S : \A v \in S : m <= v

SetMax(S) == CHOOSE m \in S : \A v \in S : m >= v

\* np.where(ecg[row, :] == BLACK)[0]: the black columns of a row.
RowBlack(img, row) == {c \in 0..(img.width - 1) : row \in img.ink[c + 1]}

WithoutRows(img, rows) ==
    [img EXCEPT !.ink = [c \in 1..img.width |-> img.ink[c] \ rows]]

WithoutCols(img, cols) ==
    [img EXCEPT !.ink = [c \in 1..img.width |->
                            IF (c - 1) \in cols THEN {} ELSE img.ink[c]]]

\* Lines 152-156: a border row is whitened when prop >= 0.95, where prop
\* is np.count_nonzero(points) / width and points are the black columns.
BorderRows(img) ==
    {row \in (0..(BORDER - 1)) \cup ((img.height - BORDER)..(img.height - 1)) :
        20 * Cardinality(RowBlack(img, row) \ {0}) >= 19 * img.width}

\* Lines 157-161, likewise for the border columns.
BorderCols(img) ==
    {c \in (0..(BORDER - 1)) \cup ((img.width - BORDER)..(img.width - 1)) :
        20 * Cardinality(img.ink[c + 1] \ {0}) >= 19 * img.height}

\* A variant of Bridged that joins nothing.
BridgedNothing(img, row) == {}

\* Lines 166-169 for one row: the columns between two consecutive black
\* pixels p1 < p2 of the row with abs(p1 - p2) <= 0.02 * width.
\* A column lies between such a pair exactly when it lies between two
\* black pixels of the row, consecutive or not, that are as close.
Bridged(img, row) ==
    {c \in 0..(img.width - 1) :
        \E p1 \in Max2(0, c - img.width \div 50)..c :
        \E p2 \in (c + 1)..(IF p1 + img.width \div 50 < img.width
                            THEN p1 + img.width \div 50 ELSE img.width - 1) :
            /\ 50 * (p2 - p1) <= img.width
            /\ row \in img.ink[p1 + 1]
            /\ row \in img.ink[p2 + 1]}

WithBridge(img, row) ==
    LET bridged == Bridged(img, row)
    IN  [img EXCEPT !.ink = [c \in 1..img.width |->
            IF (c - 1) \in bridged THEN img.ink[c] \cup {row}
            ELSE img.ink[c]]]

\* __outline_borders: [err, img]. Indexing a row or a column of the border
\* band that the image does not have raises IndexError, and so does
\* non_white_idx[0] when no row holds ink.
outline_borders(img) ==
    IF img.height < BORDER \/ img.width < BORDER
    THEN [err |-> "IndexError", img |-> img]
    ELSE LET img1 == WithoutRows(img, BorderRows(img))
             img2 == WithoutCols(img1, BorderCols(img1))
             inkRows == UNION {img2.ink[c] : c \in 1..img2.width}
         IN  IF inkRows = {}
             THEN [err |-> "IndexError", img |-> img2]
             ELSE [err |-> "none",
                   img |-> WithBridge(WithBridge(img2, SetMin(inkRows)),
                                      SetMax(inkRows))]

\* Lines 152-161 of __outline_borders: the image after the border loops.
clean_borders(img) ==
    LET img1 == WithoutRows(img, BorderRows(img))
    IN  WithoutCols(img1, BorderCols(img1))

\* The rows that hold ink: np.where(np.any(ecg[:, :] == 0, axis=1))[0].
non_white_idx(img) == UNION {img.ink[c] : c \in 1..img.width}

\* Lines 165-169 of __outline_borders, on an image with ink.
join_signals(img) ==
    WithBridge(WithBridge(img, SetMin(non_white_idx(img))),
               SetMax(non_white_idx(img)))

\* __img_partitioning: [err, rect]. rects are the bounding rectangles
\* <<x, y, w, h>> of the contours; sorted_rects[0] of no rectangle raises
\* IndexError, and the stable sort keeps the first rectangle of largest area.
img_partitioning(rects) ==
    IF Len(rects) = 0 THEN [err |-> "IndexError", rect |-> None]
    ELSE LET area(k) == rects[k][3] * rects[k][4]
             kb == CHOOSE k \in 1..Len(rects) :
                       /\ \A j \in 1..Len(rects) : area(j) <= area(k)
                       /\ \A j \in 1..(k - 1) : area(j) < area(k)
             r  == rects[kb]
         IN  [err |-> "none",
              rect |-> [top_left |-> [x |-> r[1], y |-> r[2]],
                        bottom_right |-> [x |-> r[1] + r[3], y |-> r[2] + r[4]]]]

\* preprocess: [err, img, rect]. page.mask is the binary image that the
\* image library's colour mask and threshold leave of the cropped page.
preprocess(pg) ==
    LET part == img_partitioning(pg.rects)
    IN  IF part.err # "none"
        THEN [err |-> part.err, img |-> pg.mask, rect |-> None]
        ELSE [err |-> outline_borders(pg.mask).err,
              img |-> outline_borders(pg.mask).img,
              rect |-> part.rect]

(***************************************************************************)
(* SignalExtractor                                                         *)
(***************************************************************************)

WINDOW == 10

\* __get_clusters: the maximal runs of black rows of column c, top to bottom.
get_clusters(img, c) ==
    LET S      == img.ink[c + 1]
        starts == {r \in S : (r - 1) \notin S}
        last(lo) == CHOOSE h \in S :
                        /\ h >= lo
                        /\ \A r \in lo..h : r \in S
                        /\ (h + 1) \notin S
        los    == SortedSeq(starts)
    IN  [k \in 1..Len(los) |-> <<los[k], last(los[k])>>]

\* mean = (cluster[0] + cluster[-1]) / 2, always used under ceil.
ceil_mean(cl) == (cl[1] + cl[2] + 1) \div 2

\* len(range(a, b))
RangeLen(a, b) == Max2(0, b - a)

\* A variant of gap that measures from the first rows of both clusters.
gap_from_first(p, c) == Abs(p[1] - c[1])

\* __gap: the vertical white space between two clusters.
gap(p, c) ==
    IF p[1] <= c[1] /\ p[2] <= c[2] THEN RangeLen(p[2] + 1, c[1])
    ELSE IF p[1] >= c[1] /\ p[2] >= c[2] THEN RangeLen(c[2] + 1, p[1])
    ELSE 0

(* ---- the row-wise deviation series and the regions of interest ---- *)

\* Number of black pixels of the rows y0 .. y1-1 (the slice ecg[y0:y1, :]).
BlackCount(img, y0, y1) ==
    LET RECURSIVE Sum(_)
        Sum(c) == IF c = 0 THEN 0
                  ELSE Cardinality(img.ink[c] \cap (y0..(y1 - 1))) + Sum(c - 1)
    IN  Sum(img.width)

\* stds of __get_roi, as a sequence over the rows (stds[r + 1] is row r).
\* The standard deviation of a window of m pixels of which k are black (0)
\* and the others white (255) is 255 * sqrt(k * (m - k)) / m: the series
\* is kept as k * (m - k), which orders the windows as their deviations do.
StdSeries(img) ==
    LET SHIFT == (WINDOW - 1) \div 2
        m     == (WINDOW - 1) * img.width
        k(i)  == BlackCount(img, i, i + WINDOW - 1)
    IN  [r1 \in 1..img.height |->
            LET i == (r1 - 1) - SHIFT
            IN  IF i >= 0 /\ i < img.height - WINDOW + 1
                THEN k(i) * (m - k(i))
                ELSE 0]

\* scipy.signal.find_peaks without conditions: the middle of every plateau
\* whose two neighbours are strictly lower; the first and the last sample
\* are never peaks.  Positions are 0-based, x is a sequence.
RECURSIVE RunEnd(_, _)
RunEnd(x, p) ==
    IF p + 1 <= Len(x) - 1 /\ x[p + 2] = x[p + 1] THEN RunEnd(x, p + 1) ELSE p

LocalMaxima(x) ==
    LET L == Len(x)
        v(p) == x[p + 1]
        lefts == {l \in 1..(L - 2) : v(l - 1) < v(l)}
        peak(l) == LET r == RunEnd(x, l) IN r <= L - 2 /\ v(r + 1) < v(r)
    IN  {(l + RunEnd(x, l)) \div 2 : l \in {q \in lefts : peak(q)}}

\* scipy's selection by distance: peaks are visited from the highest
\* priority down (among equal priorities the later one first) and every
\* visited peak that is still kept removes the peaks closer than d to it.
RECURSIVE SelectByDistance(_, _, _, _)
SelectByDistance(todo, kept, x, d) ==
    IF todo = {} THEN kept
    ELSE LET j == CHOOSE p \in todo : \A q \in todo :
                      \/ x[p + 1] > x[q + 1]
                      \/ (x[p + 1] = x[q + 1] /\ p >= q)
         IN  IF j \in kept
             THEN SelectByDistance(todo \ {j},
                      {q \in kept : q = j \/ Abs(q - j) >= d}, x, d)
             ELSE SelectByDistance(todo \ {j}, kept, x, d)

\* find_peaks(stds, distance=d)
find_peaks(x, d) == LET pk == LocalMaxima(x) IN SelectByDistance(pk, pk, x, d)

\* sorted(peaks, key=stds, reverse=True): the greatest deviation first, and
\* peaks of equal deviation in increasing row order (the sort is stable).
RECURSIVE ByStdDesc(_, _)
ByStdDesc(S, x) ==
    IF S = {} THEN <<>>
    ELSE LET m == CHOOSE p \in S : \A q \in S :
                      \/ x[p + 1] > x[q + 1]
                      \/ (x[p + 1] = x[q + 1] /\ p <= q)
         IN  <<m>> \o ByStdDesc(S \ {m}, x)

min_distance(img) == img.height \div 10

\* A variant of get_roi that keeps the peaks of the greatest rows.
get_roi_lowest(img, nn) ==
    LET peaks == SortedSeq(find_peaks(StdSeries(img), min_distance(img)))
    IN  IF Len(peaks) < nn
        THEN [err |-> "DigitizationError", rois |-> <<>>]
        ELSE [err |-> "none",
              rois |-> [k \in 1..nn |-> peaks[Len(peaks) - nn + k]]]

\* __get_roi: the outcome is [err, rois]. find_peaks raises ValueError when
\* the distance is smaller than 1.
get_roi(img, nn) ==
    IF min_distance(img) < 1
    THEN [err |-> "ValueError", rois |-> <<>>]
    ELSE LET stds  == StdSeries(img)
             peaks == find_peaks(stds, min_distance(img))
             order == ByStdDesc(peaks, stds)
         IN  IF Len(order) < nn
             THEN [err |-> "DigitizationError", rois |-> <<>>]
             ELSE [err |-> "none",
                   rois |-> SortedSeq({order[k] : k \in 1..nn})]

(* ---- the tracer's cache ---- *)

HasNode(ch, node) == \E k \in 1..Len(ch) : ch[k].node = node

CacheGet(ch, node) == ch[CHOOSE k \in 1..Len(ch) : ch[k].node = node].vals

\* cache[node] = vals: a new key goes to the end, an old key keeps its place.
CachePut(ch, node, vals) ==
    IF HasNode(ch, node)
    THEN [k \in 1..Len(ch) |->
            IF ch[k].node = node THEN [node |-> node, vals |-> vals] ELSE ch[k]]
    ELSE Append(ch, [node |-> node, vals |-> vals])

\* val = [ctr, None, 1, 0]; cache[node] = [val] * n
LazyInit(ch, node, nn) ==
    IF HasNode(ch, node) THEN ch
    ELSE CachePut(ch, node,
             [i \in 1..nn |-> [y |-> ceil_mean(node[2]), prev |-> None,
                               len |-> 1, score |-> 0]])

\* The lazy initialisation of every predecessor not yet in the cache, which
\* the first region of interest triggers for all of prev_clusters.
RECURSIVE LazyInitAll(_, _, _, _, _)
LazyInitAll(ch, prevs, k, c, nn) ==
    IF k > Len(prevs) \/ nn = 0 THEN ch
    ELSE LazyInitAll(LazyInit(ch, <<c - 1, prevs[k]>>, nn), prevs, k + 1, c, nn)

\* costs[pc] = ps + d + N / 10 * g, times 10.
Cost(ch, img, rs, i, c, p, cur) ==
    CacheGet(ch, <<c - 1, p>>)[i].score
        + 10 * Abs(ceil_mean(p) - rs[i]) + img.width * gap(p, cur)

\* costs of lines 59-69 for one cluster and one roi, in the order of
\* prev_clusters.
Costs(ch, img, rs, i, c, prevs, cur) ==
    [k \in 1..Len(prevs) |-> Cost(ch, img, rs, i, c, prevs[k], cur)]

\* A variant of BestPrev that always takes the first cluster.
BestPrevFirst(costs) == 1

\* min(costs, key=costs.get): the position of the first cluster of least cost.
BestPrev(costs) ==
    CHOOSE k \in 1..Len(costs) :
        /\ \A j \in 1..Len(costs) : costs[k] <= costs[j]
        /\ \A j \in 1..(k - 1) : costs[j] > costs[k]

\* Lines 71-76: the cell of one cluster for one roi.
Cell(ch, img, rs, i, c, prevs, cur) ==
    LET costs == Costs(ch, img, rs, i, c, prevs, cur)
        kb    == BestPrev(costs)
    IN  [y     |-> ceil_mean(prevs[kb]),
         prev  |-> <<c - 1, prevs[kb]>>,
         len   |-> CacheGet(ch, <<c - 1, prevs[kb]>>)[i].len + 1,
         score |-> costs[kb]]

\* The body of `for c in clusters` (lines 57-76) for one cluster.
TraceCluster(ch, img, rs, nn, c, prevs, cur) ==
    LET ch1 == CachePut(ch, <<c, cur>>, [i \in 1..nn |-> None])
        ch2 == LazyInitAll(ch1, prevs, 1, c, nn)
    IN  CachePut(ch2, <<c, cur>>,
                 [i \in 1..nn |-> Cell(ch2, img, rs, i, c, prevs, cur)])

RECURSIVE TraceClusters(_, _, _, _, _, _, _, _)
TraceClusters(ch, img, rs, nn, c, prevs, curs, k) ==
    IF k > Len(curs) THEN ch
    ELSE TraceClusters(TraceCluster(ch, img, rs, nn, c, prevs, curs[k]),
                       img, rs, nn, c, prevs, curs, k + 1)

\* A variant of TraceColumn that initialises the clusters of the previous
\* column ahead of time, before looking at the clusters of the column.
TraceColumnAhead(ch, img, rs, nn, c) ==
    LET prev_clusters == get_clusters(img, c - 1)
    IN  IF Len(prev_clusters) = 0 THEN ch
        ELSE TraceClusters(LazyInitAll(ch, prev_clusters, 1, c, nn),
                           img, rs, nn, c, prev_clusters,
                           get_clusters(img, c), 1)

\* One iteration of `for col in range(1, N)` (lines 50-76).
TraceColumn(ch, img, rs, nn, c) ==
    LET prev_clusters == get_clusters(img, c - 1)
    IN  IF Len(prev_clusters) = 0 THEN ch
        ELSE TraceClusters(ch, img, rs, nn, c, prev_clusters,
                           get_clusters(img, c), 1)

(* ---- backtracking and peak delineation ---- *)

\* A variant of Chain that keeps the order in which the links are followed,
\* the last column first.
RECURSIVE ChainUnreversed(_, _, _)
ChainUnreversed(ch, node, i) ==
    IF node = None THEN <<>>
    ELSE <<[x |-> node[1], y |-> CacheGet(ch, node)[i].y, cl |-> node[2]]>>
             \o ChainUnreversed(ch, CacheGet(ch, node)[i].prev, i)

\* The chain of PREV links from a node back to a node without predecessor,
\* already reversed: points [x, y] and the clusters they were read from.
RECURSIVE Chain(_, _, _)
Chain(ch, node, i) ==
    IF node = None THEN <<>>
    ELSE Append(Chain(ch, CacheGet(ch, node)[i].prev, i),
                [x |-> node[1], y |-> CacheGet(ch, node)[i].y, cl |-> node[2]])

\* A variant of Farthest that takes the first row of the cluster closest to
\* the roi.
Closest(cl, roi) ==
    CHOOSE r \in cl[1]..cl[2] :
        /\ \A q \in cl[1]..cl[2] : Abs(q - roi) >= Abs(r - roi)
        /\ \A q \in cl[1]..(r - 1) : Abs(q - roi) > Abs(r - roi)

\* max(cluster, key=lambda x: abs(x - roi)): the first row of the cluster
\* that is farthest from the roi.
Farthest(cl, roi) ==
    CHOOSE r \in cl[1]..cl[2] :
        /\ \A q \in cl[1]..cl[2] : Abs(q - roi) <= Abs(r - roi)
        /\ \A q \in cl[1]..(r - 1) : Abs(q - roi) < Abs(r - roi)

\* A variant of BestLast that takes the candidate closest to the roi among
\* all cached cells, whatever their length.
BestLastAnyLength(ch, roi, i) ==
    LET key(k) == Abs(ceil_mean(ch[k].node[2]) - roi)
        kb == CHOOSE k \in 1..Len(ch) :
                  /\ \A j \in 1..Len(ch) : key(k) <= key(j)
                  /\ \A j \in 1..(k - 1) : key(j) > key(k)
    IN  ch[kb].node

\* The first candidate (in cache order) of maximal length closest to the roi.
BestLast(ch, roi, i) ==
    LET max_len == CHOOSE l \in {ch[k].vals[i].len : k \in 1..Len(ch)} :
                       \A k \in 1..Len(ch) : ch[k].vals[i].len <= l
        cand(k) == ch[k].vals[i].len = max_len
        key(k)  == Abs(ceil_mean(ch[k].node[2]) - roi)
        kb == CHOOSE k \in 1..Len(ch) :
                  /\ cand(k)
                  /\ \A j \in 1..Len(ch) : cand(j) => key(k) <= key(j)
                  /\ \A j \in 1..(k - 1) : cand(j) => key(j) > key(k)
    IN  ch[kb].node

\* The body of `for roi_i in range(self.__n)` (lines 183-212).
BacktrackRoi(ch, rs, i) ==
    LET roi      == rs[i]
        chain    == Chain(ch, BestLast(ch, roi, i), i)
        roi_dist == [k \in 1..Len(chain) |-> Abs(chain[k].y - roi)]
        peaks    == LocalMaxima(roi_dist)
    IN  [k \in 1..Len(chain) |->
            IF (k - 1) \in peaks
            THEN [x |-> chain[k].x, y |-> Farthest(chain[k - 1].cl, roi)]
            ELSE [x |-> chain[k].x, y |-> chain[k].y]]

\* __backtracking: [err, raw]. max() of an empty cache raises ValueError.
backtracking(ch, rs, nn) ==
    IF nn > 0 /\ Len(ch) = 0
    THEN [err |-> "ValueError", raw |-> <<>>]
    ELSE [err |-> "none", raw |-> [i \in 1..nn |-> BacktrackRoi(ch, rs, i)]]

(***************************************************************************)
(* Postprocessor                                                           *)
(***************************************************************************)

Lead == {"I", "II", "III", "aVR", "aVL", "aVF",
         "V1", "V2", "V3", "V4", "V5", "V6"}

\* Format.STANDARD and Format.CABRERA
STANDARD == <<"I", "II", "III", "aVR", "aVL", "aVF",
              "V1", "V2", "V3", "V4", "V5", "V6">>

\* A variant of CABRERA in which V5 stands twice and V6 is missing.
CabreraRepeated == <<"aVL", "I", "aVR", "II", "aVF", "III",
                     "V1", "V2", "V3", "V4", "V5", "V5">>

CABRERA == <<"aVL", "I", "aVR", "II", "aVF", "III",
             "V1", "V2", "V3", "V4", "V5", "V6">>

INI == 0
MID == 1
END == 2
PIXEL_EPS == 5

\* s[i] for a Python index i (negative indices count from the end).
PyAt(s, i) == IF i < 0 THEN s[Len(s) + i + 1] ELSE s[i + 1]

\* s[a:b]; a bound is None or <<i>>, and None is the end of the sequence on
\* its side.
PySlice(s, a, b) ==
    LET L == Len(s)
        norm(i) == IF i < 0 THEN Max2(0, L + i) ELSE IF i > L THEN L ELSE i
        lo == IF a = None THEN 0 ELSE norm(a[1])
        hi == IF b = None THEN L ELSE norm(b[1])
    IN  [k \in 1..Max2(0, hi - lo) |-> s[lo + k]]

SeqMin(s) == CHOOSE m \in SeqRange(s) : \A v \in SeqRange(s) : m <= v

SeqMax(s) == CHOOSE m \in SeqRange(s) : \A v \in SeqRange(s) : m >= v

\* LIMIT = min([len(signal) for signal in raw_signals])
Limit(raw) == SeqMin([r \in 1..Len(raw) |-> Len(raw[r])])

\* first_pixels = [pulso[-1].y for pulso in raw_signals]
first_pixels(raw) == [r \in 1..Len(raw) |-> PyAt(raw[r], -1).y]

\* direction = range(-1, -LIMIT, -1) if rp_at_right else range(LIMIT)
direction(raw, rp) ==
    IF rp THEN [k \in 1..Max2(0, Limit(raw) - 1) |-> -k]
    ELSE [k \in 1..Limit(raw) |-> k - 1]

\* at_v0 = any([abs(y) <= PIXEL_EPS for y in y_coords]) at index i; sorting
\* y_coords does not change it.
at_v0(raw, i) ==
    \E r \in 1..Len(raw) :
        Abs(PyAt(raw[r], i).y - first_pixels(raw)[r]) <= PIXEL_EPS

break_symmetry(raw, i, pos, cnt) == pos = END /\ (~at_v0(raw, i) \/ cnt <= 0)

\* A variant of WalkPos that leaves INI for END.
WalkPosSkippingMid(raw, i, pos) ==
    IF pos = INI THEN (IF at_v0(raw, i) THEN INI ELSE END)
    ELSE IF pos = MID /\ at_v0(raw, i) THEN END
    ELSE pos

\* The state of the pulse walk after the column at index i (lines 105-114).
WalkPos(raw, i, pos) ==
    IF pos = INI THEN (IF at_v0(raw, i) THEN INI ELSE MID)
    ELSE IF pos = MID /\ at_v0(raw, i) THEN END
    ELSE pos

WalkCount(raw, i, pos, cnt) ==
    IF pos = INI THEN (IF at_v0(raw, i) THEN cnt + 1 ELSE cnt)
    ELSE IF pos = MID /\ at_v0(raw, i) THEN cnt - 1
    ELSE IF pos = END THEN cnt - 1
    ELSE cnt

signal_slice(raw, rp, ct) ==
    [r \in 1..Len(raw) |->
        IF rp THEN PySlice(raw[r], <<0>>, <<ct[1] + 1>>)
        ELSE PySlice(raw[r], ct, None)]

pulse_slice(raw, rp, ct) ==
    [r \in 1..Len(raw) |->
        IF rp THEN PySlice(raw[r], <<ct[1] + 1>>, None)
        ELSE PySlice(raw[r], <<0>>, <<ct[1] + 1>>)]

\* Lines 115-132: [err, signals, ref_pulses]. `cut + 1` with cut = None
\* raises TypeError; [-1] of an empty pulse part raises IndexError.
SliceSignals(raw, rp, ct) ==
    IF ct = None
    THEN [err |-> "TypeError", signals |-> <<>>, ref_pulses |-> <<>>]
    ELSE IF \E r \in 1..Len(raw) : Len(pulse_slice(raw, rp, ct)[r]) = 0
    THEN [err |-> "IndexError", signals |-> <<>>, ref_pulses |-> <<>>]
    ELSE [err |-> "none",
          signals |-> signal_slice(raw, rp, ct),
          ref_pulses |->
              [r \in 1..Len(raw) |->
                  <<first_pixels(raw)[r],
                    SeqMin([k \in 1..Len(pulse_slice(raw, rp, ct)[r]) |->
                               pulse_slice(raw, rp, ct)[r][k].y])>>]]

(* ---- __vectorize ---- *)

\* A cell of the sample table is <<>> when missing (NaN) and <<v>> when it
\* holds the voltage v / 10000 (voltages are rounded to 4 decimals).
NaN == <<>>

\* The integer nearest to num / den, ties to the even one (numpy.round).
RoundDiv(num, den) ==
    LET a == IF den < 0 THEN -num ELSE num
        d == Abs(den)
        q == a \div d
        r == a % d
    IN  IF 2 * r < d THEN q
        ELSE IF 2 * r > d THEN q + 1
        ELSE IF q % 2 = 0 THEN q ELSE q + 1

\* A variant of Order that ignores the cabrera flag.
OrderStandardOnly(c) == STANDARD

\* ORDER = Format.CABRERA if self.__cabrera else Format.STANDARD
Order(c) == IF c.cabrera THEN CABRERA ELSE STANDARD

IndexOf(seq, e) == (CHOOSE k \in 1..Len(seq) : seq[k] = e
                                /\ \A j \in 1..(k - 1) : seq[j] # e) - 1

InRhythm(c, lead) == lead \in SeqRange(c.rhythm)

\* r = self.__rhythm.index(lead) + NROWS if rhythm else i % NROWS
LeadRow(c, i, lead) ==
    IF InRhythm(c, lead) THEN IndexOf(c.rhythm, lead) + c.layout[1]
    ELSE i % c.layout[1]

\* A variant of LeadCol that reads every lead from the first grid column.
LeadColFirst(c, i, lead) == 0

\* c = 0 if rhythm else i // NROWS
LeadCol(c, i, lead) == IF InRhythm(c, lead) THEN 0 ELSE i \div c.layout[1]

\* A variant of total_obs that does not pad the longest signal.
total_obs_unpadded(sigs, c) ==
    IF c.interpolation = None
    THEN SeqMax([r \in 1..Len(sigs) |-> Len(sigs[r])])
    ELSE c.interpolation[1]

\* A variant of total_obs that ignores the interpolation parameter.
total_obs_padded(sigs, c) ==
    LET max_len  == SeqMax([r \in 1..Len(sigs) |-> Len(sigs[r])])
        max_diff == max_len % c.layout[2]
    IN  max_len + (IF max_diff = 0 THEN 0 ELSE c.layout[2] - max_diff)

\* total_obs (lines 157-164)
total_obs(sigs, c) ==
    LET max_len  == SeqMax([r \in 1..Len(sigs) |-> Len(sigs[r])])
        max_diff == max_len % c.layout[2]
        max_pad  == IF max_diff = 0 THEN 0 ELSE c.layout[2] - max_diff
    IN  IF c.interpolation = None THEN max_len + max_pad
        ELSE c.interpolation[1]

\* interp_signals[r, j]: the linear interpolation of the y of a signal at
\* np.linspace(0, len(signal) - 1, total_obs)[j], as <<numerator, denominator>>.
Interp(sig, T, j) ==
    IF T = 1 THEN <<sig[1].y, 1>>
    ELSE LET q == j * (Len(sig) - 1)
             k == q \div (T - 1)
             f == q % (T - 1)
         IN  IF f = 0 THEN <<sig[k + 1].y * (T - 1), T - 1>>
             ELSE <<sig[k + 1].y * (T - 1) + f * (sig[k + 2].y - sig[k + 1].y),
                    T - 1>>

\* np.round((volt_0 - y) * (1 / (volt_0 - volt_1)), 4), in units of 0.0001
Volt(v0, v1, y) == RoundDiv((v0 * y[2] - y[1]) * 10000, y[2] * (v0 - v1))

\* len(signal) after signal = signal[c * obs_num : (c + 1) * obs_num]
SliceLo(sigs, c, i, lead) ==
    LET T       == total_obs(sigs, c)
        obs_num == T \div (IF InRhythm(c, lead) THEN 1 ELSE c.layout[2])
        lo      == LeadCol(c, i, lead) * obs_num
    IN  IF lo > T THEN T ELSE lo

SliceHi(sigs, c, i, lead) ==
    LET T       == total_obs(sigs, c)
        obs_num == T \div (IF InRhythm(c, lead) THEN 1 ELSE c.layout[2])
        hi      == (LeadCol(c, i, lead) + 1) * obs_num
    IN  IF hi > T THEN T ELSE hi

SliceLen(sigs, c, i, lead) == SliceHi(sigs, c, i, lead) - SliceLo(sigs, c, i, lead)

\* The index of ecg_data selected by the mask of lines 203-204.
LeadMask(sigs, c, i, lead) ==
    LET ln == SliceLen(sigs, c, i, lead)
        cc == LeadCol(c, i, lead)
    IN  {x \in 0..(total_obs(sigs, c) - 1) : x >= ln * cc /\ x < ln * (cc + 1)}

\* Lines 190-206 for the lead at position i of ORDER: the new column.
LeadColumn(sigs, refs, c, i, lead, column) ==
    LET T    == total_obs(sigs, c)
        r    == LeadRow(c, i, lead)
        lo   == SliceLo(sigs, c, i, lead)
        mask == LeadMask(sigs, c, i, lead)
        first == SliceLen(sigs, c, i, lead) * LeadCol(c, i, lead)
        value(k) ==
            LET v == Volt(refs[r + 1][1], refs[r + 1][2],
                          Interp(sigs[r + 1], T, lo + k))
            IN  IF c.cabrera /\ lead = "aVR" THEN -v ELSE v
    IN  [x1 \in 1..T |->
            IF (x1 - 1) \in mask THEN <<value(x1 - 1 - first)>>
            ELSE column[x1]]

\* A variant of BadPulse that lets every calibration through.
BadPulseIgnored(refs, r) == FALSE

\* if volt_0 == volt_1 (line 185), for the row r of ref_pulses.
BadPulse(refs, r) == refs[r + 1][1] = refs[r + 1][2]

\* `for i, lead in enumerate(ORDER)` (lines 178-206) from position i on.
\* 1 / (volt_0 - volt_1) of line 195 raises ZeroDivisionError on integers.
RECURSIVE VectorizeFrom(_, _, _, _, _, _)
VectorizeFrom(sigs, refs, c, i, cells, wr) ==
    IF i = Len(Order(c))
    THEN [err |-> "none", data |-> [columns |-> STANDARD, cells |-> cells],
          writes |-> wr]
    ELSE LET lead == Order(c)[i + 1]
             r    == LeadRow(c, i, lead)
         IN  IF r + 1 > Len(refs)
             THEN [err |-> "IndexError", data |-> None, writes |-> wr]
             ELSE IF BadPulse(refs, r)
             THEN [err |-> "DigitizationError", data |-> None, writes |-> wr]
             ELSE IF refs[r + 1][1] - refs[r + 1][2] = 0
             THEN [err |-> "ZeroDivisionError", data |-> None, writes |-> wr]
             ELSE IF Cardinality(LeadMask(sigs, c, i, lead))
                         # SliceLen(sigs, c, i, lead)
             THEN [err |-> "ValueError", data |-> None, writes |-> wr]
             ELSE VectorizeFrom(sigs, refs, c, i + 1,
                      [cells EXCEPT ![lead] =
                          LeadColumn(sigs, refs, c, i, lead, cells[lead])],
                      [wr EXCEPT ![lead] = @ + 1])

\* __vectorize: [err, data, writes]. interp1d raises ValueError on an empty
\* signal, max() on an empty list of signals.
vectorize(sigs, refs, c) ==
    IF Len(sigs) = 0 \/ \E r \in 1..Len(sigs) : Len(sigs[r]) = 0
    THEN [err |-> "ValueError", data |-> None, writes |-> <<>>]
    ELSE VectorizeFrom(sigs, refs, c, 0,
             [l \in SeqRange(STANDARD) |->
                 [x1 \in 1..total_obs(sigs, c) |-> NaN]],
             [l \in SeqRange(STANDARD) |-> 0])

(* ---- __get_trace ---- *)

\* A colour image is [width, height, pix], pix[x][y] the BGR colour of the
\* pixel of column x and row y.
WHITE == <<255, 255, 255>>
BLACK == <<0, 0, 0>>

COLORS == << <<0, 0, 255>>, <<0, 255, 0>>, <<255, 0, 0>>, <<0, 200, 255>>,
             <<255, 255, 0>>, <<255, 0, 255>>, <<0, 0, 125>>, <<0, 125, 0>>,
             <<125, 0, 0>>, <<0, 100, 125>>, <<125, 125, 0>>, <<125, 0, 125>> >>

H_SPACE == 20

\* A variant of to_BGR that yields a blank canvas.
to_BGR_blank(img, x, y) == WHITE

\* trace = ecg.copy(); trace.to_BGR(): a pixel of the binary image in BGR.
to_BGR(img, x, y) == IF y \in img.ink[x + 1] THEN BLACK ELSE WHITE

\* The pixels of the dashed lines of lines 249-264: for every pulse and
\* every x0 of range(0, width, H_SPACE), the columns x0 .. x0 + H_SPACE // 2
\* of the rows volt_0 and volt_1 (cv.line paints both end points).
OnDash(refs, x, y) ==
    /\ x % H_SPACE <= H_SPACE \div 2
    /\ \E r \in 1..Len(refs) : y = refs[r][1] \/ y = refs[r][2]

\* The points that __get_trace joins for the lead at position i of ORDER
\* (lines 268-273); the points of `signals`, not the interpolated samples.
LeadPoints(sigs, c, i) ==
    LET lead    == Order(c)[i + 1]
        signal  == sigs[LeadRow(c, i, lead) + 1]
        obs_num == Len(signal) \div (IF InRhythm(c, lead) THEN 1
                                     ELSE c.layout[2])
        cc      == LeadCol(c, i, lead)
    IN  PySlice(signal, <<cc * obs_num>>, <<(cc + 1) * obs_num>>)

\* The pixels that cv.line may paint for a segment of thickness 2: the
\* bounding box of the segment grown by one pixel on every side.
OnSegment(p1, p2, x, y) ==
    /\ x >= (IF p1.x <= p2.x THEN p1.x ELSE p2.x) - 1
    /\ x <= Max2(p1.x, p2.x) + 1
    /\ y >= (IF p1.y <= p2.y THEN p1.y ELSE p2.y) - 1
    /\ y <= Max2(p1.y, p2.y) + 1

OnLead(pts, x, y) ==
    \E k \in 1..(Len(pts) - 1) : OnSegment(pts[k], pts[k + 1], x, y)

\* The colour of a pixel of the overlay: the colour of the last lead
\* painted over it, else the black of a dashed line, else the pixel of the
\* image the overlay is drawn on. leads[i + 1] are the points joined for
\* the lead at position i of ORDER.
TracePixel(img, refs, leads, x, y) ==
    LET over == {i \in 0..(Len(leads) - 1) : OnLead(leads[i + 1], x, y)}
    IN  IF over # {} THEN COLORS[(SetMax(over) % Len(COLORS)) + 1]
        ELSE IF OnDash(refs, x, y) THEN BLACK
        ELSE to_BGR(img, x, y)

\* __get_trace
get_trace(img, sigs, refs, c) ==
    LET leads == [i1 \in 1..Len(Order(c)) |-> LeadPoints(sigs, c, i1 - 1)]
    IN  [width |-> img.width, height |-> img.height,
         pix |-> [x \in 0..(img.width - 1) |->
                     [y \in 0..(img.height - 1) |->
                         TracePixel(img, refs, leads, x, y)]]]

(***************************************************************************)
(* Inputs                                                                  *)
(***************************************************************************)

MaxWidth == 3      \* widest image given to the extractor alone
Height == 70       \* height of every image

\* A variant of SignalCount that forgets the rhythm strips.
SignalCountRowsOnly(c) == c.layout[1]

\* Digitizer.__init__: SignalExtractor(layout[0] + len(rhythm))
SignalCount(c) == c.layout[1] + Len(c.rhythm)

Config(layout, rhythm, rp, cab, interp, ocr) ==
    [layout |-> layout, rhythm |-> rhythm, rp_at_right |-> rp,
     cabrera |-> cab, interpolation |-> interp, ocr |-> ocr]

\* Row of the baseline of the t-th trace drawn on an image.
BaseRow(t) == 16 * t - 6

\* Columns of a chart with four traces: every trace on its baseline, every
\* trace on the plateau of its pulse (6 rows higher), the vertical edge of
\* the pulses, no ink at all, a speck of noise above the first trace, and
\* the last trace missing.
ColumnShapes ==
    { {BaseRow(t) : t \in 1..4},
      {BaseRow(t) - 6 : t \in 1..4},
      UNION {(BaseRow(t) - 6)..BaseRow(t) : t \in 1..4},
      {},
      {BaseRow(t) : t \in 1..4} \cup {BaseRow(1) - 3},
      {BaseRow(t) : t \in 1..3} }

ImagesOfWidth(w) ==
    {[width |-> w, height |-> Height, ink |-> k] : k \in [1..w -> ColumnShapes]}

NoImage == [width |-> 0, height |-> 0, ink |-> <<>>]

\* What an invocation finds outside the program: whether the file decodes,
\* the bounding rectangles of the contours, the binary image of the crop,
\* whether the OCR engine is installed and whether outpath can be written.
Page(dec, rects, mask, tess, wr) ==
    [decodable |-> dec, rects |-> rects, mask |-> mask, tesseract |-> tess,
     writable |-> wr]

NoPage == Page(TRUE, <<>>, NoImage, TRUE, TRUE)

\* The decoded page: the chart, whose binary image is page.mask, inside a
\* margin of one pixel; the top left corner of the margin is printed black.
PageWidthOf(pg) == pg.mask.width + 2

PageHeightOf(pg) == pg.mask.height + 2

\* The light colour of the grid lines, which the colour mask turns white.
GridColour == <<200, 200, 255>>

\* Image(path)[y, x]: dark where the mask is black, the grid colour on
\* every eighth row of the chart, white paper elsewhere.
page_pixel(pg, x, y) ==
    IF x >= 1 /\ x <= pg.mask.width /\ y >= 1 /\ y <= pg.mask.height
    THEN IF (y - 1) \in pg.mask.ink[x] THEN BLACK
         ELSE IF y % 8 = 2 THEN GridColour
         ELSE WHITE
    ELSE IF x = 0 /\ y = 0 THEN BLACK ELSE WHITE


\* The state of the variables of single calls while none is modelled.
NoCall ==
    /\ clusters = None
    /\ white_space = None
    /\ chart = None
    /\ stage = "none"
    /\ cleaned = None
    /\ outlined = None

(***************************************************************************)
(* The application: Controller, Model, View and the Thread workers         *)
(***************************************************************************)

\* The most paths one browse loads, the number of workers of a digitize
\* event (max(1, pool.maxThreadCount() - 1)), and the numbers of browse and
\* digitize events of a session.
MaxPaths == 2

ThreadCount == 1

MaxLoads == 2

MaxRuns == 2

\* What Digitizer.digitize does to the worker that called it: it returns,
\* raises DigitizationError, or raises another exception.
Outcomes == {"ok", "DigitizationError", "IndexError"}

\* Model.__init__; batch counts the lists assigned to ecg_paths, so that
\* the paths of two loads differ.
ModelInit ==
    [digitizing |-> FALSE, ecg_paths |-> None, digitized |-> None, batch |-> 0]

\* View: the controls as the window shows them first.
ViewInit ==
    [browse |-> TRUE, digitize |-> FALSE, cancel |-> FALSE, settings |-> FALSE]

NoBatch ==
    /\ model = ModelInit
    /\ view = ViewInit
    /\ active_threads = 0
    /\ threads = <<>>
    /\ queue = <<>>
    /\ gui_err = "none"

\* The state of the pipeline variables while no invocation is modelled.
NoInvocation ==
    /\ pc = "idle"
    /\ cfg = None
    /\ n = 0
    /\ page = None
    /\ ecg = None
    /\ rect = None
    /\ rois = <<>>
    /\ cache = <<>>
    /\ col = 0
    /\ raw_signals = <<>>
    /\ pulse_pos = 0
    /\ ini_count = 0
    /\ cut = None
    /\ step = 0
    /\ signals = <<>>
    /\ ref_pulses = <<>>
    /\ data = <<>>
    /\ writes = <<>>
    /\ files = {}
    /\ trace = None
    /\ saved = None
    /\ err = "none"

\* Model.ecg_paths setter: the flags are reset only for a list.
set_ecg_paths(m, paths, b) ==
    [m EXCEPT !.ecg_paths = paths,
              !.batch = b,
              !.digitized = IF paths # None
                            THEN [k \in 1..Len(paths) |-> FALSE]
                            ELSE m.digitized]

\* Model.progress: None (here -1) without flags, else the rounded percentage.
progress(m) ==
    IF m.digitized = None THEN -1
    ELSE LET done == Cardinality({k \in 1..Len(m.digitized) : m.digitized[k]})
         IN  (200 * done + Len(m.digitized)) \div (2 * Len(m.digitized))

\* The (i, path) of the ECG not yet digitised, i counted from 0.
pending_paths(m) ==
    LET idx == {k \in 1..Len(m.ecg_paths) : ~m.digitized[k]}
        s   == SortedSeq(idx)
    IN  [j \in 1..Len(s) |-> <<s[j] - 1, m.ecg_paths[s[j]]>>]

\* np.array_split(seq, parts)[k - 1]: the first len % parts parts have one
\* element more than the others.
array_split(seq, parts, k) ==
    LET q  == Len(seq) \div parts
        r  == Len(seq) % parts
        lo == (k - 1) * q + (IF k - 1 < r THEN k - 1 ELSE r)
        sz == q + (IF k <= r THEN 1 ELSE 0)
    IN  [j \in 1..sz |-> seq[lo + j]]

\* Thread.__init__. run numbers the digitize event that created the worker;
\* sent, failed, cancelled and late record what happened to it: the signals
\* it emitted, the indices whose digitisation raised, whether a confirmed
\* cancel found it unfinished, and how many digitisations it began after.
Thread(paths, run) ==
    [paths |-> paths, pos |-> 0, at |-> "queued", run |-> run, sent |-> <<>>,
     failed |-> {}, cancelled |-> FALSE, late |-> 0]

Running(t) == threads[t].at \in {"loop", "digitizing"}

Runs == Len(threads) \div ThreadCount

\* proc_browse_evt(paths) with a non-empty selection of L files.
Browse ==
    /\ view.browse
    /\ model.batch < MaxLoads
    /\ \E L \in 1..MaxPaths :
           model' = set_ecg_paths(model,
                                  [k \in 1..L |-> <<model.batch + 1, k>>],
                                  model.batch + 1)
    /\ view' = [view EXCEPT !.settings = TRUE, !.digitize = TRUE,
                            !.cancel = TRUE]
    /\ UNCHANGED <<active_threads, threads, queue, gui_err>>
    /\ UNCHANGED digitVars
    /\ UNCHANGED unitVars

\* proc_digitize_evt. Without paths, enumerate(None) raises TypeError after
\* the controls were disabled and the counter set.
Digitize ==
    /\ view.digitize
    /\ Runs < MaxRuns
    /\ model' = [model EXCEPT !.digitizing = TRUE]
    /\ view' = [view EXCEPT !.digitize = FALSE, !.settings = FALSE,
                            !.browse = FALSE]
    /\ active_threads' = ThreadCount
    /\ IF model.ecg_paths = None
       THEN /\ gui_err' = "TypeError"
            /\ UNCHANGED threads
       ELSE /\ threads' = threads \o
                  [k \in 1..ThreadCount |->
                      Thread(array_split(pending_paths(model), ThreadCount, k),
                             Runs + 1)]
            /\ UNCHANGED gui_err
    /\ UNCHANGED queue
    /\ UNCHANGED digitVars
    /\ UNCHANGED unitVars

\* proc_cancel_evt(True), after the user confirmed the question.
Cancel ==
    /\ view.cancel
    /\ model' = set_ecg_paths([model EXCEPT !.digitizing = FALSE], None,
                              model.batch)
    /\ view' = [view EXCEPT !.browse = TRUE, !.cancel = FALSE]
    /\ threads' = [t \in 1..Len(threads) |->
                      IF threads[t].at \in {"queued", "loop", "digitizing"}
                      THEN [threads[t] EXCEPT !.cancelled = TRUE]
                      ELSE threads[t]]
    /\ UNCHANGED <<active_threads, queue, gui_err>>
    /\ UNCHANGED digitVars
    /\ UNCHANGED unitVars

\* The pool begins run() of a queued worker when one of its
\* maxThreadCount threads is free.
RunStart ==
    /\ \E t \in 1..Len(threads) :
           /\ threads[t].at = "queued"
           /\ Cardinality({u \in 1..Len(threads) : Running(u)}) < ThreadCount + 1
           /\ threads' = [threads EXCEPT ![t].at = "loop"]
    /\ UNCHANGED <<model, view, active_threads, queue, gui_err>>
    /\ UNCHANGED digitVars
    /\ UNCHANGED unitVars

\* Thread.run, the head of the loop: after the last path, or when
\* is_digitizing() is false, finished is emitted; else digitize(path) begins.
LoopHead ==
    /\ \E t \in 1..Len(threads) :
           LET th == threads[t]
           IN  /\ th.at = "loop"
               /\ IF th.pos = Len(th.paths) \/ ~model.digitizing
                  THEN /\ threads' = [threads EXCEPT
                                         ![t].at = "returned",
                                         ![t].sent = Append(@, <<"finished", -1>>)]
                       /\ queue' = Append(queue, [kind |-> "finished",
                                                  idx |-> -1, from |-> t])
                  ELSE /\ threads' = [threads EXCEPT
                                         ![t].at = "digitizing",
                                         ![t].pos = @ + 1,
                                         ![t].late = IF th.cancelled
                                                     THEN @ + 1 ELSE @]
                       /\ UNCHANGED queue
    /\ UNCHANGED <<model, view, active_threads, gui_err>>
    /\ UNCHANGED digitVars
    /\ UNCHANGED unitVars

\* Thread.run, the end of digitize(path): progress when it returns, error
\* when it raises DigitizationError; any other exception leaves run().
DigitizeEnd ==
    /\ \E t \in 1..Len(threads) : \E o \in Outcomes :
           LET th == threads[t]
               i  == th.paths[th.pos][1]
           IN  /\ th.at = "digitizing"
               /\ IF o = "ok"
                  THEN /\ threads' = [threads EXCEPT
                                         ![t].at = "loop",
                                         ![t].sent = Append(@, <<"progress", i>>)]
                       /\ queue' = Append(queue, [kind |-> "progress",
                                                  idx |-> i, from |-> t])
                  ELSE IF o = "DigitizationError"
                  THEN /\ threads' = [threads EXCEPT
                                         ![t].at = "loop",
                                         ![t].failed = @ \cup {i},
                                         ![t].sent = Append(@, <<"error", i>>)]
                       /\ queue' = Append(queue, [kind |-> "error",
                                                  idx |-> i, from |-> t])
                  ELSE /\ threads' = [threads EXCEPT
                                         ![t].at = "raised",
                                         ![t].failed = @ \cup {i}]
                       /\ UNCHANGED queue
    /\ UNCHANGED <<model, view, active_threads, gui_err>>
    /\ UNCHANGED digitVars
    /\ UNCHANGED unitVars

\* Model.set_digitized(idx): [err, m]. Indexing None raises TypeError and
\* an index past the list raises IndexError.
set_digitized(m, idx) ==
    IF m.digitized = None THEN [err |-> "TypeError", m |-> m]
    ELSE IF idx >= Len(m.digitized) THEN [err |-> "IndexError", m |-> m]
    ELSE [err |-> "none", m |-> [m EXCEPT !.digitized[idx + 1] = TRUE]]

\* The event loop of the GUI delivers the oldest signal: progress_callback,
\* error_callback or finished_callback. In finished_callback the log line
\* of a complete batch takes len(ecg_paths), a TypeError without paths.
Deliver ==
    /\ queue # <<>>
    /\ LET sig == Head(queue)
       IN  IF sig.kind = "finished"
           THEN /\ active_threads' = active_threads - 1
                /\ IF progress(model) = 100 /\ model.ecg_paths = None
                   THEN /\ gui_err' = "TypeError"
                        /\ UNCHANGED view
                   ELSE /\ view' = IF active_threads - 1 = 0
                                   THEN [view EXCEPT !.browse = TRUE,
                                                     !.cancel = FALSE]
                                   ELSE view
                        /\ UNCHANGED gui_err
                /\ UNCHANGED model
           ELSE /\ model' = set_digitized(model, sig.idx).m
                /\ gui_err' = IF set_digitized(model, sig.idx).err # "none"
                              THEN set_digitized(model, sig.idx).err
                              ELSE gui_err
                /\ UNCHANGED <<view, active_threads>>
    /\ queue' = Tail(queue)
    /\ UNCHANGED threads
    /\ UNCHANGED digitVars
    /\ UNCHANGED unitVars

InitBatch == NoInvocation /\ NoBatch /\ NoCall

NextBatch ==
    \/ Browse
    \/ Digitize
    \/ Cancel
    \/ RunStart
    \/ LoopHead
    \/ DigitizeEnd
    \/ Deliver

SpecBatch == InitBatch /\ [][NextBatch]_vars

(***************************************************************************)
(* Single calls of SignalExtractor.__gap and of                            *)
(* Preprocessor.__outline_borders                                          *)
(***************************************************************************)

\* The rows of the clusters given to __gap are below MaxRow.
MaxRow == 6

\* The clusters <<first row, last row>> of a column of MaxRow rows.
Clusters == {<<a, b>> : a \in 0..(MaxRow - 1), b \in 0..(MaxRow - 1)} \ 
            {<<a, b>> \in (0..(MaxRow - 1)) \X (0..(MaxRow - 1)) : a > b}

\* g = self.__gap(pc, c)
Gap ==
    /\ white_space = None
    /\ white_space' = <<gap(clusters[1], clusters[2])>>
    /\ UNCHANGED <<clusters, chart, stage, cleaned, outlined>>
    /\ UNCHANGED digitVars
    /\ UNCHANGED batchVars

InitGap ==
    /\ NoInvocation
    /\ NoBatch
    /\ clusters \in Clusters \X Clusters
    /\ white_space = None
    /\ chart = None
    /\ stage = "none"
    /\ cleaned = None
    /\ outlined = None

NextGap == Gap

SpecGap == InitGap /\ [][NextGap]_vars

\* The charts given to __outline_borders are ChartWidth columns wide and
\* ChartHeight rows high.
ChartWidth == 100

ChartHeight == 22

\* The least number of black pixels that is 95% of a line of m pixels.
Most(m) == (19 * m + 19) \div 20

\* The black columns of a row of a chart: none, all, Most of them from
\* column 0 or from column 1 on, one less, and separate dots.
RowShapes ==
    { {}, 0..(ChartWidth - 1), 0..(Most(ChartWidth) - 1), 1..Most(ChartWidth),
      1..(Most(ChartWidth) - 1), {20, 22, 25, 30} }

\* The black rows of a column of a chart, likewise.
ColShapes ==
    { {}, 0..(ChartHeight - 1), 0..(Most(ChartHeight) - 1),
      1..Most(ChartHeight) }

\* The rows and the columns that take a shape: one in each border band and
\* one outside the bands.
ShapedRows == {0, BORDER + 1, ChartHeight - 1}

ShapedCols == {BORDER \div 2, ChartWidth \div 2}

Charts ==
    { [width |-> ChartWidth, height |-> ChartHeight,
       ink |-> [c1 \in 1..ChartWidth |->
                   {r \in ShapedRows : (c1 - 1) \in rs[r]}
                   \cup (IF (c1 - 1) \in ShapedCols THEN cs[c1 - 1] ELSE {})]] :
      rs \in [ShapedRows -> RowShapes], cs \in [ShapedCols -> ColShapes] }

\* __outline_borders, lines 148-161: the border loops. Indexing a row or a
\* column that the image does not have raises IndexError.
CleanBorders ==
    /\ stage = "clean"
    /\ IF chart.height < BORDER \/ chart.width < BORDER
       THEN stage' = "IndexError" /\ UNCHANGED cleaned
       ELSE stage' = "join" /\ cleaned' = clean_borders(chart)
    /\ UNCHANGED <<clusters, white_space, chart, outlined>>
    /\ UNCHANGED digitVars
    /\ UNCHANGED batchVars

\* __outline_borders, lines 162-170: the joining of the first and the last
\* row with ink; non_white_idx[0] of an image without ink raises IndexError.
JoinSignals ==
    /\ stage = "join"
    /\ IF non_white_idx(cleaned) = {}
       THEN stage' = "IndexError" /\ UNCHANGED outlined
       ELSE stage' = "done" /\ outlined' = join_signals(cleaned)
    /\ UNCHANGED <<clusters, white_space, chart, cleaned>>
    /\ UNCHANGED digitVars
    /\ UNCHANGED batchVars

InitBorders ==
    /\ NoInvocation
    /\ NoBatch
    /\ clusters = None
    /\ white_space = None
    /\ chart \in Charts
    /\ stage = "clean"
    /\ cleaned = None
    /\ outlined = None

NextBorders == CleanBorders \/ JoinSignals

SpecBorders == InitBorders /\ [][NextBorders]_vars

(***************************************************************************)
(* SignalExtractor.extract_signals, one action per step                    *)
(***************************************************************************)

postVars == <<pulse_pos, ini_count, cut, step, signals, ref_pulses, data, writes>>

imgVars == <<trace, saved>>

\* rois = self.__get_roi(ecg); cache = {}
GetRoi ==
    /\ pc = "get_roi"
    /\ LET r == get_roi(ecg, n)
       IN  IF r.err # "none"
           THEN /\ err' = r.err
                /\ pc' = "failed"
                /\ UNCHANGED <<rois, cache, col>>
           ELSE /\ rois' = r.rois
                /\ cache' = <<>>
                /\ col' = 1
                /\ pc' = "trace"
                /\ UNCHANGED err
    /\ UNCHANGED <<cfg, n, page, ecg, rect, raw_signals, files>>
    /\ UNCHANGED postVars
    /\ UNCHANGED imgVars
    /\ UNCHANGED batchVars
    /\ UNCHANGED unitVars

\* One iteration of `for col in range(1, N)`.
TraceCol ==
    /\ pc = "trace"
    /\ col < ecg.width
    /\ cache' = TraceColumn(cache, ecg, rois, n, col)
    /\ col' = col + 1
    /\ UNCHANGED <<pc, cfg, n, page, ecg, rect, rois, raw_signals, files, err>>
    /\ UNCHANGED postVars
    /\ UNCHANGED imgVars
    /\ UNCHANGED batchVars
    /\ UNCHANGED unitVars

\* raw_signals = self.__backtracking(cache, rois); return raw_signals
Backtracking ==
    /\ pc = "trace"
    /\ col >= ecg.width
    /\ LET r == backtracking(cache, rois, n)
       IN  IF r.err # "none"
           THEN /\ err' = r.err
                /\ pc' = "failed"
                /\ UNCHANGED raw_signals
           ELSE /\ raw_signals' = r.raw
                /\ pc' = "segment"
                /\ UNCHANGED err
    /\ UNCHANGED <<cfg, n, page, ecg, rect, rois, cache, col, files>>
    /\ UNCHANGED postVars
    /\ UNCHANGED imgVars
    /\ UNCHANGED batchVars
    /\ UNCHANGED unitVars

\* The extractor alone, on every image of up to MaxWidth columns.
ExtractConfigs ==
    { Config(<<3, 4>>, <<>>, TRUE, FALSE, None, FALSE),
      Config(<<3, 4>>, <<"II">>, TRUE, FALSE, None, FALSE) }

InitExtract ==
    /\ pc = "get_roi"
    /\ cfg \in ExtractConfigs
    /\ n = SignalCount(cfg)
    /\ page = NoPage
    /\ ecg \in UNION {ImagesOfWidth(w) : w \in 1..MaxWidth}
    /\ rect = None
    /\ rois = <<>>
    /\ cache = <<>>
    /\ col = 0
    /\ raw_signals = <<>>
    /\ pulse_pos = 0
    /\ ini_count = 0
    /\ cut = None
    /\ step = 0
    /\ signals = <<>>
    /\ ref_pulses = <<>>
    /\ data = <<>>
    /\ writes = <<>>
    /\ files = {}
    /\ trace = None
    /\ saved = None
    /\ err = "none"
    /\ NoBatch
    /\ NoCall

NextExtract == GetRoi \/ TraceCol \/ Backtracking

SpecExtract == InitExtract /\ [][NextExtract]_vars

\* The extractor on charts of PeakWidth columns whose traces rise and fall:
\* every trace on its baseline, on the plateau of its pulse, on the vertical
\* edge of the pulse, or on a thick stroke below the baseline.
PeakWidth == 4

PeakShapes ==
    { {BaseRow(t) : t \in 1..4},
      {BaseRow(t) - 6 : t \in 1..4},
      UNION {(BaseRow(t) - 6)..BaseRow(t) : t \in 1..4},
      UNION {BaseRow(t)..(BaseRow(t) + 4) : t \in 1..4} }

InitPeaks ==
    /\ pc = "get_roi"
    /\ cfg = Config(<<3, 4>>, <<>>, TRUE, FALSE, None, FALSE)
    /\ n = SignalCount(cfg)
    /\ page = NoPage
    /\ ecg \in {[width |-> PeakWidth, height |-> Height, ink |-> k] :
                   k \in [1..PeakWidth -> PeakShapes]}
    /\ rect = None
    /\ rois = <<>>
    /\ cache = <<>>
    /\ col = 0
    /\ raw_signals = <<>>
    /\ pulse_pos = 0
    /\ ini_count = 0
    /\ cut = None
    /\ step = 0
    /\ signals = <<>>
    /\ ref_pulses = <<>>
    /\ data = <<>>
    /\ writes = <<>>
    /\ files = {}
    /\ trace = None
    /\ saved = None
    /\ err = "none"
    /\ NoBatch
    /\ NoCall

SpecPeaks == InitPeaks /\ [][NextExtract]_vars

(***************************************************************************)
(* Postprocessor.postprocess, one action per step                          *)
(***************************************************************************)

extractVars == <<n, page, ecg, rect, rois, cache, col, raw_signals>>

\* Lines 81-91: LIMIT, first_pixels, direction, pulse_pos = INI,
\* ini_count = 0, cut = None. min() of no polyline raises ValueError and
\* [-1] of an empty polyline raises IndexError.
SegmentBegin ==
    /\ pc = "segment"
    /\ IF Len(raw_signals) = 0
       THEN /\ err' = "ValueError"
            /\ pc' = "failed"
            /\ UNCHANGED <<pulse_pos, ini_count, cut, step>>
       ELSE IF \E r \in 1..Len(raw_signals) : Len(raw_signals[r]) = 0
       THEN /\ err' = "IndexError"
            /\ pc' = "failed"
            /\ UNCHANGED <<pulse_pos, ini_count, cut, step>>
       ELSE /\ pulse_pos' = INI
            /\ ini_count' = 0
            /\ cut' = None
            /\ step' = 0
            /\ pc' = "walk"
            /\ UNCHANGED err
    /\ UNCHANGED <<cfg, signals, ref_pulses, data, writes, files>>
    /\ UNCHANGED extractVars
    /\ UNCHANGED imgVars
    /\ UNCHANGED batchVars
    /\ UNCHANGED unitVars

\* One iteration of `for i in direction` (lines 92-114).
WalkStep ==
    /\ pc = "walk"
    /\ step < Len(direction(raw_signals, cfg.rp_at_right))
    /\ LET i == direction(raw_signals, cfg.rp_at_right)[step + 1]
       IN  IF break_symmetry(raw_signals, i, pulse_pos, ini_count)
           THEN /\ cut' = <<i>>
                /\ pc' = "slice"
                /\ UNCHANGED <<pulse_pos, ini_count>>
           ELSE /\ pulse_pos' = WalkPos(raw_signals, i, pulse_pos)
                /\ ini_count' = WalkCount(raw_signals, i, pulse_pos, ini_count)
                /\ UNCHANGED <<cut, pc>>
    /\ step' = step + 1
    /\ UNCHANGED <<cfg, signals, ref_pulses, data, writes, files, err>>
    /\ UNCHANGED extractVars
    /\ UNCHANGED imgVars
    /\ UNCHANGED batchVars
    /\ UNCHANGED unitVars

\* Lines 115-132, after the break or after the last index of direction.
Slice ==
    /\ \/ pc = "slice"
       \/ /\ pc = "walk"
          /\ step >= Len(direction(raw_signals, cfg.rp_at_right))
    /\ LET r == SliceSignals(raw_signals, cfg.rp_at_right, cut)
       IN  IF r.err # "none"
           THEN /\ err' = r.err
                /\ pc' = "failed"
                /\ UNCHANGED <<signals, ref_pulses>>
           ELSE /\ signals' = r.signals
                /\ ref_pulses' = r.ref_pulses
                /\ pc' = "vectorize"
                /\ UNCHANGED err
    /\ UNCHANGED <<cfg, pulse_pos, ini_count, cut, step, data, writes, files>>
    /\ UNCHANGED extractVars
    /\ UNCHANGED imgVars
    /\ UNCHANGED batchVars
    /\ UNCHANGED unitVars

\* data = self.__vectorize(signals, ref_pulses)
Vectorize ==
    /\ pc = "vectorize"
    /\ LET r == vectorize(signals, ref_pulses, cfg)
       IN  IF r.err # "none"
           THEN /\ err' = r.err
                /\ pc' = "failed"
                /\ UNCHANGED <<data, writes>>
           ELSE /\ data' = r.data
                /\ writes' = r.writes
                /\ pc' = "get_trace"
                /\ UNCHANGED err
    /\ UNCHANGED <<cfg, pulse_pos, ini_count, cut, step, signals, ref_pulses,
                   files>>
    /\ UNCHANGED extractVars
    /\ UNCHANGED imgVars
    /\ UNCHANGED batchVars
    /\ UNCHANGED unitVars

\* trace = self.__get_trace(ecg_crop, signals, ref_pulses); return
GetTrace ==
    /\ pc = "get_trace"
    /\ trace' = get_trace(ecg, signals, ref_pulses, cfg)
    /\ pc' = "to_csv"
    /\ UNCHANGED <<cfg, files, saved, err>>
    /\ UNCHANGED postVars
    /\ UNCHANGED extractVars
    /\ UNCHANGED batchVars
    /\ UNCHANGED unitVars

(* ---- the postprocessor alone, on polylines of MaxPolyLen points ---- *)

MaxPolyLen == 6

\* Height of a point above the baseline of its row: on it, or on a plateau.
Levels == {0, 6}

Patterns == [1..MaxPolyLen -> Levels]

Flat == [k \in 1..MaxPolyLen |-> 0]

Swap(p) == [k \in 1..Len(p) |-> 6 - p[k]]

\* The pattern with its k-th point moved half-way up.
Bump(p, k) == [p EXCEPT ![k] = 3]

Poly(t, p) == [k \in 1..Len(p) |-> [x |-> k - 1, y |-> BaseRow(t) - p[k]]]

\* The first row follows one pattern; the other rows all follow the same
\* pattern, the flat one, the mirrored one, or the same pattern with a
\* different sample next to either end.
PostSignals(nn) ==
    UNION { { [t \in 1..nn |-> IF t = 1 THEN Poly(t, pA) ELSE Poly(t, pB)] :
                pB \in {pA, Flat, Swap(pA), Bump(pA, 2),
                        Bump(pA, MaxPolyLen - 1)} } : pA \in Patterns }

MaxObs == 5        \* the interpolation parameter, when it is given

Layouts ==
    { <<<<3, 4>>, <<>>>>, <<<<3, 4>>, <<"II">>>>,
      <<<<6, 2>>, <<"aVR", "V1">>>>, <<<<12, 1>>, <<>>>> }

PostConfigs ==
    { Config(l[1], l[2], rp, cab, k, FALSE) :
        l \in Layouts, rp \in BOOLEAN, cab \in BOOLEAN, k \in {None, <<MaxObs>>} }

InitPost ==
    /\ pc = "segment"
    /\ cfg \in PostConfigs
    /\ n = SignalCount(cfg)
    /\ page = NoPage
    /\ ecg = NoImage
    /\ rect = None
    /\ rois = <<>>
    /\ cache = <<>>
    /\ col = 0
    /\ raw_signals \in PostSignals(n)
    /\ pulse_pos = 0
    /\ ini_count = 0
    /\ cut = None
    /\ step = 0
    /\ signals = <<>>
    /\ ref_pulses = <<>>
    /\ data = <<>>
    /\ writes = <<>>
    /\ files = {}
    /\ trace = None
    /\ saved = None
    /\ err = "none"
    /\ NoBatch
    /\ NoCall

NextPost == SegmentBegin \/ WalkStep \/ Slice \/ Vectorize \/ GetTrace

SpecPost == InitPost /\ [][NextPost]_vars

(***************************************************************************)
(* Digitizer.digitize                                                      *)
(***************************************************************************)

stageVars == <<rois, cache, col, raw_signals>>

\* ecg = Image(path); frame = ecg.copy()
LoadImage ==
    /\ pc = "load"
    /\ IF page.decodable
       THEN pc' = "preprocess" /\ UNCHANGED err
       ELSE pc' = "failed" /\ err' = "FileNotFoundError"
    /\ UNCHANGED <<cfg, n, page, ecg, rect, files>>
    /\ UNCHANGED stageVars
    /\ UNCHANGED postVars
    /\ UNCHANGED imgVars
    /\ UNCHANGED batchVars
    /\ UNCHANGED unitVars

\* ecg_crop, rect = self.__preprocessor.preprocess(ecg)
Preprocess ==
    /\ pc = "preprocess"
    /\ LET r == preprocess(page)
       IN  IF r.err # "none"
           THEN /\ err' = r.err
                /\ pc' = "failed"
                /\ UNCHANGED <<ecg, rect>>
           ELSE /\ ecg' = r.img
                /\ rect' = r.rect
                /\ pc' = "get_roi"
                /\ UNCHANGED err
    /\ UNCHANGED <<cfg, n, page, files>>
    /\ UNCHANGED stageVars
    /\ UNCHANGED postVars
    /\ UNCHANGED imgVars
    /\ UNCHANGED batchVars
    /\ UNCHANGED unitVars

\* data.to_csv(f_outpath + ".csv", index=False)
WriteCsv ==
    /\ pc = "to_csv"
    /\ IF page.writable
       THEN files' = files \cup {"csv"} /\ pc' = "save_trace" /\ UNCHANGED err
       ELSE err' = "OSError" /\ pc' = "failed" /\ UNCHANGED files
    /\ UNCHANGED <<cfg, n, page, ecg, rect>>
    /\ UNCHANGED stageVars
    /\ UNCHANGED postVars
    /\ UNCHANGED imgVars
    /\ UNCHANGED batchVars
    /\ UNCHANGED unitVars

\* A variant of paste that keeps nothing of the page around the overlay.
paste_on_blank(pg, rc, tr) ==
    [width |-> PageWidthOf(pg), height |-> PageHeightOf(pg),
     pix |-> [x \in 0..(PageWidthOf(pg) - 1) |->
                 [y \in 0..(PageHeightOf(pg) - 1) |->
                     IF /\ x >= rc.top_left.x /\ x < rc.bottom_right.x
                        /\ y >= rc.top_left.y /\ y < rc.bottom_right.y
                     THEN tr.pix[x - rc.top_left.x][y - rc.top_left.y]
                     ELSE WHITE]]]

\* ecg[tl.y : br.y, tl.x : br.x] = trace.data on the decoded page.
paste(pg, rc, tr) ==
    [width |-> PageWidthOf(pg), height |-> PageHeightOf(pg),
     pix |-> [x \in 0..(PageWidthOf(pg) - 1) |->
                 [y \in 0..(PageHeightOf(pg) - 1) |->
                     IF /\ x >= rc.top_left.x /\ x < rc.bottom_right.x
                        /\ y >= rc.top_left.y /\ y < rc.bottom_right.y
                     THEN tr.pix[x - rc.top_left.x][y - rc.top_left.y]
                     ELSE page_pixel(pg, x, y)]]]

\* ecg[tl.y : br.y, tl.x : br.x] = trace.data; ecg.save(... "_trace.png").
\* The overlay has the shape of the crop, which is the shape of the slice.
SaveTrace ==
    /\ pc = "save_trace"
    /\ saved' = paste(page, rect, trace)
    /\ files' = files \cup {"trace"}
    /\ pc' = IF cfg.ocr THEN "ocr" ELSE "done"
    /\ UNCHANGED <<cfg, n, page, ecg, rect, trace, err>>
    /\ UNCHANGED stageVars
    /\ UNCHANGED postVars
    /\ UNCHANGED batchVars
    /\ UNCHANGED unitVars

\* metadata = self.__ocr.extract_metadata(frame)
ExtractMetadata ==
    /\ pc = "ocr"
    /\ IF page.tesseract
       THEN pc' = "write_metadata" /\ UNCHANGED err
       ELSE pc' = "failed" /\ err' = "DigitizationError"
    /\ UNCHANGED <<cfg, n, page, ecg, rect, files>>
    /\ UNCHANGED stageVars
    /\ UNCHANGED postVars
    /\ UNCHANGED imgVars
    /\ UNCHANGED batchVars
    /\ UNCHANGED unitVars

\* with open(f_outpath + "_metadata.txt", "w") as f: f.write(metadata)
WriteMetadata ==
    /\ pc = "write_metadata"
    /\ files' = files \cup {"metadata"}
    /\ pc' = "done"
    /\ UNCHANGED <<cfg, n, page, ecg, rect, err>>
    /\ UNCHANGED stageVars
    /\ UNCHANGED postVars
    /\ UNCHANGED imgVars
    /\ UNCHANGED batchVars
    /\ UNCHANGED unitVars

(* ---- whole invocations, on pages PageWidth columns wide ---- *)

PageWidth == 10
FreeCols == 4

BaseColumn == {BaseRow(t) : t \in 1..4}

TopColumn == {BaseRow(t) - 6 : t \in 1..4}

SpeckColumn == BaseColumn \cup {BaseRow(1) - 3}

\* Charts that are flat, but for a speck above the first trace in one
\* column, except for FreeCols columns next to the right or the left edge,
\* and the chart without any ink.
PageImages ==
    LET prefix == PageWidth - FreeCols
        right(f) == [width |-> PageWidth, height |-> Height,
                     ink |-> [c \in 1..PageWidth |->
                                 IF c = 2 THEN SpeckColumn
                                 ELSE IF c <= prefix THEN BaseColumn
                                 ELSE f[c - prefix]]]
        left(f)  == [width |-> PageWidth, height |-> Height,
                     ink |-> [c \in 1..PageWidth |->
                                 IF c = PageWidth - 1 THEN SpeckColumn
                                 ELSE IF c > FreeCols THEN BaseColumn
                                 ELSE f[c]]]
        free == [1..FreeCols -> {BaseColumn, TopColumn}]
    IN  {right(f) : f \in free} \cup {left(f) : f \in free}
        \cup {[width |-> PageWidth, height |-> Height,
               ink |-> [c \in 1..PageWidth |-> {}]]}

\* The bounding rectangles of a page: a logo and the frame of the chart.
PageRects(img) == << <<0, 0, 2, 2>>, <<1, 1, img.width, img.height>> >>

\* A chart with one reference pulse next to the right edge.
PulseImage ==
    [width |-> PageWidth, height |-> Height,
     ink |-> [c \in 1..PageWidth |->
                 IF c = 2 THEN SpeckColumn
                 ELSE IF c = PageWidth - 2 THEN TopColumn
                 ELSE BaseColumn]]

\* The pages that decode, and for one chart a file that does not decode,
\* a page without contours, a machine without the OCR engine and an
\* outpath that cannot be written.
Pages ==
    { Page(TRUE, PageRects(img), img, TRUE, TRUE) : img \in PageImages }
    \cup { Page(FALSE, PageRects(PulseImage), PulseImage, TRUE, TRUE),
           Page(TRUE, <<>>, PulseImage, TRUE, TRUE),
           Page(TRUE, PageRects(PulseImage), PulseImage, FALSE, TRUE),
           Page(TRUE, PageRects(PulseImage), PulseImage, TRUE, FALSE) }

Configs ==
    { Config(<<3, 4>>, <<"II">>, rp, FALSE, None, ocr) :
        rp \in BOOLEAN, ocr \in BOOLEAN }

Init ==
    /\ pc = "load"
    /\ cfg \in Configs
    /\ n = SignalCount(cfg)
    /\ page \in Pages
    /\ ecg = NoImage
    /\ rect = None
    /\ rois = <<>>
    /\ cache = <<>>
    /\ col = 0
    /\ raw_signals = <<>>
    /\ pulse_pos = 0
    /\ ini_count = 0
    /\ cut = None
    /\ step = 0
    /\ signals = <<>>
    /\ ref_pulses = <<>>
    /\ data = <<>>
    /\ writes = <<>>
    /\ files = {}
    /\ trace = None
    /\ saved = None
    /\ err = "none"
    /\ NoBatch
    /\ NoCall

Next ==
    \/ LoadImage
    \/ Preprocess
    \/ GetRoi
    \/ TraceCol
    \/ Backtracking
    \/ SegmentBegin
    \/ WalkStep
    \/ Slice
    \/ Vectorize
    \/ GetTrace
    \/ WriteCsv
    \/ SaveTrace
    \/ ExtractMetadata
    \/ WriteMetadata

Spec == Init /\ [][Next]_vars

(***************************************************************************)
(* Properties                                                              *)
(***************************************************************************)

\* C1: whenever extract_signals returns, every polyline has exactly
\* ecg.width points and the set of its x-coordinates is 0 .. ecg.width - 1,
\* whatever the distribution of ink over the columns.
C1_FullWidth ==
    pc = "segment" =>
        \A i \in 1..Len(raw_signals) :
            /\ Len(raw_signals[i]) = ecg.width
            /\ {raw_signals[i][k].x : k \in 1..Len(raw_signals[i])}
                   = 0..(ecg.width - 1)

\* C2: the extractor is asked for layout rows + |rhythm| signals, and
\* whenever extract_signals returns it returns exactly that many polylines,
\* none of them empty.
C2_SignalCount ==
    /\ n = cfg.layout[1] + Len(cfg.rhythm)
    /\ pc = "segment" =>
           /\ Len(raw_signals) = cfg.layout[1] + Len(cfg.rhythm)
           /\ \A i \in 1..Len(raw_signals) : Len(raw_signals[i]) > 0

C2_Witness ==
    /\ pc = "segment"
    /\ Len(cfg.rhythm) > 0
    /\ Len(raw_signals) = 4
    /\ Len(cache) > 0

\* C3: for every row, the anchor v0 that segmentation produces is the y of
\* the polyline's last point when rp_at_right is true and the y of its first
\* point when rp_at_right is false.
C3_Anchor ==
    ref_pulses # <<>> =>
        \A r \in 1..Len(ref_pulses) :
            ref_pulses[r][1] =
                IF cfg.rp_at_right THEN PyAt(raw_signals[r], -1).y
                ELSE PyAt(raw_signals[r], 0).y

\* C4 as stated: with interpolation = k, the column of each of the 12
\* leads holds exactly k non-missing entries.
C4_Original ==
    (pc = "get_trace" /\ cfg.interpolation # None) =>
        \A l \in Lead :
            Cardinality({x \in 1..Len(data.cells[l]) : data.cells[l][x] # NaN})
                = cfg.interpolation[1]

\* C4: with interpolation = k the table has k rows; the column of a lead of
\* the rhythm strips holds k non-missing entries and the column of every
\* other lead holds k \div cols of them.
C4_PerLead ==
    (pc = "get_trace" /\ cfg.interpolation # None) =>
        /\ \A l \in Lead : Len(data.cells[l]) = cfg.interpolation[1]
        /\ \A l \in Lead :
            Cardinality({x \in 1..Len(data.cells[l]) : data.cells[l][x] # NaN})
                = IF InRhythm(cfg, l) THEN cfg.interpolation[1]
                  ELSE cfg.interpolation[1] \div cfg.layout[2]

C4_Witness ==
    /\ pc = "get_trace"
    /\ cfg.interpolation # None
    /\ cfg.layout[2] > 1
    /\ Len(cfg.rhythm) > 0
    /\ \E l \in Lead :
           Cardinality({x \in 1..Len(data.cells[l]) : data.cells[l][x] # NaN})
               < cfg.interpolation[1]

\* C5 as stated: for the same polylines and parameters, the tables made
\* with and without cabrera differ only in column aVR, which is negated.
C5_Original ==
    pc = "get_trace" =>
        LET other == vectorize(signals, ref_pulses,
                               [cfg EXCEPT !.cabrera = ~cfg.cabrera])
            cab == IF cfg.cabrera THEN data ELSE other.data
            std == IF cfg.cabrera THEN other.data ELSE data
        IN  /\ other.err = "none"
            /\ \A l \in Lead \ {"aVR"} : cab.cells[l] = std.cells[l]
            /\ cab.cells["aVR"] =
                   [x \in 1..Len(std.cells["aVR"]) |->
                       IF std.cells["aVR"][x] = NaN THEN NaN
                       ELSE <<-std.cells["aVR"][x][1]>>]

\* C5: with cabrera the grid is read in the order of Format.CABRERA. The
\* column of a rhythm lead is the same in both tables, and the column of the
\* grid lead at a position of the Cabrera order is the column that the
\* standard table gives the grid lead at the same position of the standard
\* order; in both cases aVR is negated in the Cabrera table.
C5_ByPosition ==
    pc = "get_trace" =>
        LET other == vectorize(signals, ref_pulses,
                               [cfg EXCEPT !.cabrera = ~cfg.cabrera])
            cab == IF cfg.cabrera THEN data ELSE other.data
            std == IF cfg.cabrera THEN other.data ELSE data
            neg(column) == [x \in 1..Len(column) |->
                               IF column[x] = NaN THEN NaN
                               ELSE <<-column[x][1]>>]
            same(lc, ls) == cab.cells[lc] = IF lc = "aVR" THEN neg(std.cells[ls])
                                            ELSE std.cells[ls]
        IN  /\ other.err = "none"
            /\ \A l \in Lead : InRhythm(cfg, l) => same(l, l)
            /\ \A i \in 1..Len(STANDARD) :
                   (~InRhythm(cfg, CABRERA[i]) /\ ~InRhythm(cfg, STANDARD[i]))
                       => same(CABRERA[i], STANDARD[i])

C5_Witness ==
    /\ pc = "get_trace"
    /\ cfg.cabrera
    /\ cfg.layout = <<3, 4>>
    /\ InRhythm(cfg, "II")
    /\ data.cells["I"] # vectorize(signals, ref_pulses,
                             [cfg EXCEPT !.cabrera = FALSE]).data.cells["I"]
    /\ \E x \in 1..Len(data.cells["aVR"]) :
           data.cells["aVR"][x] # NaN /\ data.cells["aVR"][x][1] # 0

\* C6: whenever vectorisation succeeds the table has the 12 columns
\* I, II, III, aVR, aVL, aVF, V1 .. V6 in this order, with or without
\* cabrera, and the column of every lead has been written exactly once.
C6_Columns ==
    pc = "get_trace" =>
        /\ data.columns = <<"I", "II", "III", "aVR", "aVL", "aVF",
                            "V1", "V2", "V3", "V4", "V5", "V6">>
        /\ DOMAIN data.cells = SeqRange(data.columns)
        /\ \A l \in Lead : writes[l] = 1

C6_Witness ==
    /\ pc = "get_trace"
    /\ cfg.cabrera
    /\ Len(cfg.rhythm) = 2
    /\ \A l \in Lead : writes[l] = 1

\* C7: if a row that a lead is read from has v0 = v1, vectorisation fails
\* with DigitizationError and returns no table; nothing is ever divided by
\* v0 - v1 = 0.
C7_Calibration ==
    /\ err # "ZeroDivisionError"
    /\ (/\ ref_pulses # <<>>
        /\ pc # "vectorize"
        /\ \E i \in 1..Len(Order(cfg)) :
               BadPulse(ref_pulses, LeadRow(cfg, i - 1, Order(cfg)[i])))
           => (pc = "failed" /\ err = "DigitizationError" /\ data = <<>>)

C7_Witness ==
    /\ pc = "failed"
    /\ err = "DigitizationError"
    /\ ref_pulses # <<>>
    /\ \E r \in 1..Len(ref_pulses) : ref_pulses[r][1] = ref_pulses[r][2]
    /\ \E r \in 1..Len(ref_pulses) : ref_pulses[r][1] # ref_pulses[r][2]

\* C8: digitize either completes or fails with a DigitizationError; no
\* other kind of failure escapes it.
C8_OnlyDigitizationError == pc = "failed" => err = "DigitizationError"

\* C9: when the search for the chart finds no contour, preprocess fails
\* with ImageFormatError and yields no image and no rectangle.
C9_ImageFormatError ==
    (pc = "failed" /\ page.decodable /\ Len(page.rects) = 0) =>
        (err = "ImageFormatError" /\ ecg = NoImage /\ rect = None)

\* C10: an invocation of digitize that fails has written none of its
\* output files.
C10_NoPartialOutput == pc = "failed" => files = {}

\* C15: with interpolation unset and more than one layout column, the table
\* has L + pad rows, L the greatest waveform length and pad what L lacks to
\* the next multiple of cols; so every column's length is a multiple of
\* cols, at least L and less than L + cols.
C15_PaddedLength ==
    (pc = "get_trace" /\ cfg.interpolation = None /\ cfg.layout[2] > 1) =>
        LET cols == cfg.layout[2]
            L    == SeqMax([r \in 1..Len(signals) |-> Len(signals[r])])
            pad  == IF L % cols = 0 THEN 0 ELSE cols - (L % cols)
        IN  \A l \in Lead :
                /\ Len(data.cells[l]) = L + pad
                /\ Len(data.cells[l]) % cols = 0
                /\ Len(data.cells[l]) >= L
                /\ Len(data.cells[l]) < L + cols

C15_Witness ==
    /\ pc = "get_trace"
    /\ cfg.interpolation = None
    /\ cfg.layout[2] = 4
    /\ Len(signals[1]) % 4 # 0
    /\ Len(data.cells["V6"]) > Len(signals[1])

\* C16: when a column without clusters lies between two populated columns,
\* every cell of the next populated column gets a predecessor in the most
\* recent populated column and a length greater than 1, so that the path
\* continues across the empty column.
C16_AcrossEmptyColumn ==
    (pc \in {"trace", "segment", "failed"} /\ col >= ecg.width /\ rois # <<>>) =>
        \A c \in 1..(ecg.width - 2) :
            (/\ ecg.ink[c + 1] = {}
             /\ ecg.ink[c] # {}
             /\ ecg.ink[c + 2] # {}) =>
                \A k \in 1..Len(get_clusters(ecg, c + 1)) :
                    LET node == <<c + 1, get_clusters(ecg, c + 1)[k]>>
                    IN  /\ HasNode(cache, node)
                        /\ \A i \in 1..n :
                               /\ CacheGet(cache, node)[i].prev # None
                               /\ CacheGet(cache, node)[i].prev[1] = c - 1
                               /\ CacheGet(cache, node)[i].len > 1

\* The cost of one step of a chain, times 10: |centre(prev) - r_i| plus
\* chart_width / 10 times the gap between the two clusters.
StepCost(img, roi, prev, cur) ==
    10 * Abs(ceil_mean(prev) - roi) + img.width * gap(prev, cur)

\* The least total step cost over all chains of clusters, one per column,
\* from the start of the run of populated columns to cur in column c.
RECURSIVE MinChainCost(_, _, _, _)
MinChainCost(img, roi, c, cur) ==
    IF c = 0 \/ img.ink[c] = {} THEN 0
    ELSE LET prevs == get_clusters(img, c - 1)
             total(k) == MinChainCost(img, roi, c - 1, prevs[k])
                             + StepCost(img, roi, prevs[k], cur)
         IN  SeqMin([k \in 1..Len(prevs) |-> total(k)])

\* C17: for every processed column whose left neighbour is populated, every
\* cluster of it and every roi, the recorded score is the least of
\* score(prev) + |centre(prev) - r_i| + chart_width / 10 * gap(prev, cur)
\* over the clusters prev of the left neighbour, the recorded predecessor
\* attains it, the recorded length is the predecessor's plus one, and the
\* score is the least total step cost over all chains from the start of the
\* run of populated columns.
C17_LeastCost ==
    (pc \in {"trace", "segment"}) =>
        \A c \in 1..(col - 1) :
            ecg.ink[c] # {} =>
                LET curs  == get_clusters(ecg, c)
                    prevs == get_clusters(ecg, c - 1)
                IN  \A i \in 1..n :
                    LET least == [j \in 1..Len(prevs) |->
                                     MinChainCost(ecg, rois[i], c - 1, prevs[j])]
                    IN  \A k \in 1..Len(curs) :
                        LET cur  == curs[k]
                            via(p) == CacheGet(cache, <<c - 1, p>>)[i].score
                                          + StepCost(ecg, rois[i], p, cur)
                        IN  /\ HasNode(cache, <<c, cur>>)
                            /\ LET cell == CacheGet(cache, <<c, cur>>)[i]
                                IN  /\ cell.prev # None
                                    /\ cell.prev[1] = c - 1
                                    /\ cell.prev[2] \in SeqRange(prevs)
                                    /\ \A j \in 1..Len(prevs) :
                                           cell.score <= via(prevs[j])
                                    /\ cell.score = via(cell.prev[2])
                                    /\ cell.len =
                                           CacheGet(cache, cell.prev)[i].len + 1
                                    /\ cell.score =
                                           SeqMin([j \in 1..Len(prevs) |->
                                               least[j] + StepCost(ecg, rois[i],
                                                                   prevs[j], cur)])

C17_Witness ==
    /\ pc = "segment"
    /\ ecg.width = 3
    /\ \A c \in 1..3 : Cardinality(ecg.ink[c]) > 4
    /\ \E k \in 1..Len(cache) :
           /\ cache[k].node[1] = 2
           /\ cache[k].vals[1].score > 0
           /\ cache[k].vals[1].prev[2] # get_clusters(ecg, 1)[1]

\* C18: during segmentation the state only moves INI -> MID -> END, one
\* step at a time; ini_count goes up by one exactly on the columns visited
\* in INI where some row is within 5 px of its anchor, and down by one
\* exactly on the column that moves MID to END and on every later column
\* visited in END; the cut is the first visited column at which the state is
\* END and either no row is within 5 px of its anchor or ini_count <= 0, and
\* the walk stops there.
C18_Walk ==
    [][ /\ (pc = "walk" /\ step' = step + 1) =>
            LET i == direction(raw_signals, cfg.rp_at_right)[step + 1]
                baseline == \E r \in 1..Len(raw_signals) :
                                Abs(PyAt(raw_signals[r], i).y
                                        - PyAt(raw_signals[r], -1).y) <= 5
                exit == pulse_pos = END /\ (~baseline \/ ini_count <= 0)
            IN  /\ cut = None
                /\ exit => (cut' = <<i>> /\ pc' = "slice"
                            /\ pulse_pos' = pulse_pos
                            /\ ini_count' = ini_count)
                /\ ~exit =>
                    /\ cut' = None /\ pc' = "walk"
                    /\ pulse_pos' = IF pulse_pos = INI /\ ~baseline THEN MID
                                    ELSE IF pulse_pos = MID /\ baseline THEN END
                                    ELSE pulse_pos
                    /\ ini_count' =
                           IF pulse_pos = INI /\ baseline THEN ini_count + 1
                           ELSE IF (pulse_pos = MID /\ baseline) \/ pulse_pos = END
                                THEN ini_count - 1
                           ELSE ini_count
        /\ pc \in {"walk", "slice"} =>
               (pulse_pos' >= pulse_pos /\ pulse_pos' <= pulse_pos + 1)
        /\ pc = "slice" => (step' = step /\ cut' = cut) ]_vars

C18_Witness ==
    /\ pc = "slice"
    /\ pulse_pos = END
    /\ ini_count > 0
    /\ cut # None
    /\ step >= 4

\* C19: the lead at position i of the active order is read from row
\* rows + rhythm.index(lead) with c = 0 when it is a rhythm lead and from
\* row i mod rows with c = i div rows otherwise; the non-missing entries of
\* its column are exactly the indices S*c .. S*(c+1) - 1 with
\* S = T div (1 if rhythm else cols), they hold the samples of that row at
\* those indices, and two grid leads read from the same row never share an
\* index.
C19_LeadSlices ==
    pc = "get_trace" =>
        LET order == IF cfg.cabrera THEN CABRERA ELSE STANDARD
            rows  == cfg.layout[1]
            cols  == cfg.layout[2]
            T     == Len(data.cells["I"])
            rh(i) == \E k \in 1..Len(cfg.rhythm) : cfg.rhythm[k] = order[i + 1]
            r(i)  == IF rh(i)
                     THEN rows - 1 + (CHOOSE k \in 1..Len(cfg.rhythm) :
                                          cfg.rhythm[k] = order[i + 1])
                     ELSE i % rows
            c(i)  == IF rh(i) THEN 0 ELSE i \div rows
            S(i)  == T \div (IF rh(i) THEN 1 ELSE cols)
            rng(i) == (S(i) * c(i))..(S(i) * (c(i) + 1) - 1)
            sample(i, x) ==
                LET v == Volt(ref_pulses[r(i) + 1][1], ref_pulses[r(i) + 1][2],
                              Interp(signals[r(i) + 1], T, x))
                IN  IF cfg.cabrera /\ order[i + 1] = "aVR" THEN -v ELSE v
        IN  /\ \A i \in 0..11 : \A x \in 0..(T - 1) :
                   data.cells[order[i + 1]][x + 1] =
                       IF x \in rng(i) THEN <<sample(i, x)>> ELSE NaN
            /\ \A i \in 0..11, j \in 0..11 :
                   (i # j /\ ~rh(i) /\ ~rh(j) /\ r(i) = r(j))
                       => rng(i) \cap rng(j) = {}

C19_Witness ==
    /\ pc = "get_trace"
    /\ cfg.layout = <<6, 2>>
    /\ cfg.cabrera
    /\ Len(cfg.rhythm) = 2
    /\ cfg.interpolation = None
    /\ data.cells["V6"][1] = NaN
    /\ data.cells["V6"][Len(data.cells["V6"])] # NaN
    /\ data.cells["V1"][1] # NaN

\* C20: for each roi, the last point of its polyline belongs to a cached
\* cell whose length for that roi is the greatest of the cache, no other
\* cell of that length has a centre strictly closer to the roi, and the
\* polyline is the chain of predecessor links from that cell back to a cell
\* without predecessor, in increasing column order (one point per link, at
\* the link's column, with the recorded y unless peak delineation moved it
\* to a row of the cluster the y was read from).
C20_BestLast ==
    pc = "segment" =>
        \A i \in 1..n :
            \E k \in 1..Len(cache) :
                LET node  == cache[k].node
                    cell(nd) == CacheGet(cache, nd)[i]
                    poly  == raw_signals[i]
                    L     == Len(poly)
                    \* the node of the j-th point, following prev from the end
                    at[j \in 1..L] ==
                        IF j = L THEN node ELSE cell(at[j + 1]).prev
                IN  /\ \A q \in 1..Len(cache) :
                           cache[q].vals[i].len <= cell(node).len
                    /\ \A q \in 1..Len(cache) :
                           cache[q].vals[i].len = cell(node).len =>
                               Abs(ceil_mean(cache[q].node[2]) - rois[i])
                                   >= Abs(ceil_mean(node[2]) - rois[i])
                    /\ L = cell(node).len
                    /\ cell(at[1]).prev = None
                    /\ \A j \in 1..L :
                           /\ poly[j].x = at[j][1]
                           /\ j > 1 => at[j][1] = at[j - 1][1] + 1
                           /\ \/ poly[j].y = cell(at[j]).y
                              \/ /\ j > 1
                                 /\ poly[j].y \in at[j - 1][2][1]..at[j - 1][2][2]

C20_Witness ==
    /\ pc = "segment"
    /\ ecg.width = 3
    /\ ecg.ink[1] = {}
    /\ Len(raw_signals[1]) = 2
    /\ raw_signals[1][2].x = 2
    /\ \E k \in 1..Len(cache) : cache[k].vals[1].len = 1


InCrop(x, y) ==
    /\ x >= rect.top_left.x /\ x < rect.bottom_right.x
    /\ y >= rect.top_left.y /\ y < rect.bottom_right.y

\* C13: once the trace image is saved, it is as wide and as high as the
\* input page, every pixel outside the crop rectangle of the preprocessor
\* is the pixel of the input page, and the pixels with tl.y <= row < br.y
\* and tl.x <= column < br.x are those of the overlay.
C13_OutsideCrop ==
    saved # None =>
        /\ saved.width = PageWidthOf(page)
        /\ saved.height = PageHeightOf(page)
        /\ \A x \in 0..(saved.width - 1) : \A y \in 0..(saved.height - 1) :
               IF InCrop(x, y)
               THEN saved.pix[x][y]
                        = trace.pix[x - rect.top_left.x][y - rect.top_left.y]
               ELSE saved.pix[x][y] = page_pixel(page, x, y)

\* A digitisation that ended well, of a page with a dark pixel outside the
\* crop rectangle and a pixel inside it that the overlay changed.
C13_Witness ==
    /\ pc = "done"
    /\ saved # None
    /\ \E x \in 0..(saved.width - 1) : \E y \in 0..(saved.height - 1) :
           ~InCrop(x, y) /\ page_pixel(page, x, y) = BLACK
    /\ \E x \in 0..(saved.width - 1) : \E y \in 0..(saved.height - 1) :
           InCrop(x, y) /\ saved.pix[x][y] # page_pixel(page, x, y)

\* The pixels of the overlay that no dashed line and no lead was drawn on.
Undrawn(x, y) ==
    /\ ~OnDash(ref_pulses, x, y)
    /\ \A i \in 0..(Len(Order(cfg)) - 1) :
           ~OnLead(LeadPoints(signals, cfg, i), x, y)

\* C14 as stated: every pixel of the overlay that nothing was drawn on is
\* the pixel of the input page at that place of the crop rectangle.
C14_Original ==
    trace # None =>
        \A x \in 0..(trace.width - 1) : \A y \in 0..(trace.height - 1) :
            Undrawn(x, y) =>
                trace.pix[x][y]
                    = page_pixel(page, x + rect.top_left.x, y + rect.top_left.y)

\* C14, amended: the overlay is drawn on the binarised crop that the
\* preprocessor returns, so every pixel of the overlay that nothing was
\* drawn on is black where that binary image is black and white elsewhere.
C14_OnBinarisedCrop ==
    trace # None =>
        /\ trace.width = ecg.width
        /\ trace.height = ecg.height
        /\ \A x \in 0..(trace.width - 1) : \A y \in 0..(trace.height - 1) :
               Undrawn(x, y) =>
                   trace.pix[x][y]
                       = (IF y \in ecg.ink[x + 1] THEN BLACK ELSE WHITE)

\* An overlay with an undrawn pixel that is black in the binary image and
\* an undrawn pixel where the page shows the colour of the grid.
C14_Witness ==
    /\ trace # None
    /\ \E x \in 0..(trace.width - 1) : \E y \in 0..(trace.height - 1) :
           Undrawn(x, y) /\ y \in ecg.ink[x + 1]
    /\ \E x \in 0..(trace.width - 1) : \E y \in 0..(trace.height - 1) :
           /\ Undrawn(x, y)
           /\ page_pixel(page, x + rect.top_left.x, y + rect.top_left.y)
                  = GridColour


\* C11: once the user has confirmed a cancel, no worker that the cancel
\* found unfinished begins the digitisation of another path of its batch,
\* whatever the controller processes afterwards.
C11_NoStartAfterCancel ==
    \A t \in 1..Len(threads) : threads[t].late = 0

\* C12: a worker whose digitisation of a path failed, with any kind of
\* failure, has emitted exactly one error signal for that path and goes on
\* with its run, which ends with finished.
C12_FailureReported ==
    \A t \in 1..Len(threads) :
        /\ threads[t].at # "raised"
        /\ \A i \in threads[t].failed :
               Cardinality({k \in 1..Len(threads[t].sent) :
                               threads[t].sent[k] = <<"error", i>>}) = 1


\* The batch a worker was started for: the load its paths belong to.
BatchOf(t) == threads[t].paths[1][2][1]

\* C30: whenever the GUI runs progress_callback or error_callback for a
\* signal carrying idx, idx is a flag of the batch the emitting worker was
\* started for, which is still the batch of the model's flags; and whenever
\* it runs finished_callback, it is not the case that ecg_paths is None
\* while the progress is 100.
C30_OwnBatch ==
    [][ (queue # <<>> /\ queue' = Tail(queue)) =>
            IF Head(queue).kind = "finished"
            THEN ~(model.ecg_paths = None /\ progress(model) = 100)
            ELSE /\ model.digitized # None
                 /\ Head(queue).idx < Len(model.digitized)
                 /\ BatchOf(Head(queue).from) = model.batch ]_vars


\* C22: for clusters pc = [a, b] and c = [a', b'] the gap is
\* max(0, a' - b - 1) when a <= a' and b <= b', max(0, a - b' - 1) when
\* a >= a' and b >= b', and 0 otherwise; it is the number of rows strictly
\* between the two extents, it is 0 exactly when the extents overlap or
\* touch, and it is the same for <<pc, c>> and <<c, pc>>.
C22_Gap ==
    white_space # None =>
        LET a  == clusters[1][1]
            b  == clusters[1][2]
            a2 == clusters[2][1]
            b2 == clusters[2][2]
            g  == white_space[1]
            between == {r \in 0..(MaxRow - 1) :
                           \/ b < r /\ r < a2
                           \/ b2 < r /\ r < a}
            touch == a2 <= b + 1 /\ a <= b2 + 1
        IN  /\ (a <= a2 /\ b <= b2) => g = Max2(0, a2 - b - 1)
            /\ (a >= a2 /\ b >= b2) => g = Max2(0, a - b2 - 1)
            /\ ~(a <= a2 /\ b <= b2) /\ ~(a >= a2 /\ b >= b2) => g = 0
            /\ g = Cardinality(between)
            /\ g = 0 <=> touch
            /\ g = gap(clusters[2], clusters[1])

\* A call on two clusters with two or more white rows between them, the
\* cluster of the previous column being the lower one.
C22_Witness ==
    /\ white_space # None
    /\ white_space[1] >= 2
    /\ clusters[1][1] > clusters[2][2]


\* The two steps of __outline_borders give what outline_borders gives.
OutlineAgrees ==
    /\ stage = "done" => /\ outline_borders(chart).err = "none"
                         /\ outline_borders(chart).img = outlined
    /\ stage = "IndexError" => outline_borders(chart).err = "IndexError"

\* C24: after the border loops, a row of the 10 topmost and 10 bottommost
\* rows is white exactly when at least 95% of its pixels were black, then
\* a column of the 10 leftmost and 10 rightmost columns likewise, and no
\* other pixel has changed.
C24_BorderCleanup ==
    cleaned # None =>
        LET rows == {r \in (0..(BORDER - 1))
                          \cup ((chart.height - BORDER)..(chart.height - 1)) :
                        20 * Cardinality(RowBlack(chart, r)) >= 19 * chart.width}
            img1 == WithoutRows(chart, rows)
            cols == {c \in (0..(BORDER - 1))
                          \cup ((chart.width - BORDER)..(chart.width - 1)) :
                        20 * Cardinality(img1.ink[c + 1]) >= 19 * chart.height}
        IN  cleaned = WithoutCols(img1, cols)


\* The first and the last row of the cleaned image that hold ink.
JoinedRows ==
    {SetMin(non_white_idx(cleaned)), SetMax(non_white_idx(cleaned))}

\* The pairs of consecutive black pixels of a row of an image.
Consecutive(img, row) ==
    {<<p1, p2>> \in RowBlack(img, row) \X RowBlack(img, row) :
        /\ p1 < p2
        /\ \A q \in (p1 + 1)..(p2 - 1) : row \notin img.ink[q + 1]}

\* What C25 says of the pixels: on the first and the last row with ink
\* every pair of consecutive ink pixels at most 2% of the width apart is
\* joined, no other row changes and no ink becomes white.
JoinedAsStated ==
    /\ \A row \in JoinedRows : \A pr \in Consecutive(cleaned, row) :
           50 * (pr[2] - pr[1]) <= cleaned.width =>
               \A q \in pr[1]..pr[2] : row \in outlined.ink[q + 1]
    /\ \A c1 \in 1..cleaned.width :
           /\ cleaned.ink[c1] \subseteq outlined.ink[c1]
           /\ outlined.ink[c1] \ JoinedRows = cleaned.ink[c1] \ JoinedRows

\* C25 as stated: ... and afterwards every white run between two ink
\* pixels of those rows is longer than 2% of the width.
C25_Original ==
    stage = "done" =>
        /\ JoinedAsStated
        /\ \A row \in JoinedRows : \A pr \in Consecutive(outlined, row) :
               pr[2] - pr[1] > 1 => 50 * (pr[2] - pr[1] - 1) > outlined.width

\* C25, amended: ... and afterwards the two ink pixels at the ends of every
\* white run of those rows are more than 2% of the width apart (the run
\* itself may be one pixel shorter than that).
C25_Joined ==
    stage = "done" =>
        /\ JoinedAsStated
        /\ \A row \in JoinedRows : \A pr \in Consecutive(outlined, row) :
               pr[2] - pr[1] > 1 => 50 * (pr[2] - pr[1]) > outlined.width

\* A chart whose first row with ink had a pair of ink pixels that was
\* joined and keeps a white run between ink pixels.
C25_Witness ==
    /\ stage = "done"
    /\ \E row \in JoinedRows :
           /\ \E pr \in Consecutive(cleaned, row) :
                  /\ pr[2] - pr[1] > 1
                  /\ \A q \in pr[1]..pr[2] : row \in outlined.ink[q + 1]
           /\ \E pr \in Consecutive(outlined, row) : pr[2] - pr[1] > 1


\* The peaks of the deviation series of the image given to the extractor.
RoiPeaks == find_peaks(StdSeries(ecg), min_distance(ecg))

\* C23: once __get_roi has run, if the deviation series had fewer than N
\* peaks the extraction has failed with the ROI-count error and no column
\* was traced; otherwise rois holds N distinct peak rows in strictly
\* increasing order, and no peak left out has a deviation strictly greater
\* than one of them.
C23_Rois ==
    pc # "get_roi" =>
        LET stds  == StdSeries(ecg)
            peaks == find_peaks(stds, min_distance(ecg))
        IN  IF Cardinality(peaks) < n
            THEN /\ pc = "failed"
                 /\ err = "DigitizationError"
                 /\ rois = <<>>
                 /\ cache = <<>>
                 /\ col = 0
            ELSE /\ Len(rois) = n
                 /\ \A k \in 1..(n - 1) : rois[k] < rois[k + 1]
                 /\ SeqRange(rois) \subseteq peaks
                 /\ \A u \in peaks \ SeqRange(rois) : \A k \in 1..n :
                        stds[u + 1] <= stds[rois[k] + 1]

\* An image with more than N peaks, one of which is left out for a
\* deviation strictly smaller than that of every selected peak.
C23_Witness ==
    /\ pc = "trace"
    /\ \E u \in RoiPeaks \ SeqRange(rois) : \A k \in 1..n :
           StdSeries(ecg)[u + 1] < StdSeries(ecg)[rois[k] + 1]

\* C21: peak delineation leaves the number of points, every x and the y of
\* every point outside the peaks of the distance-to-roi series unchanged;
\* a peak lies at a position p with 1 <= p <= length - 2 and its new y is a
\* row of the polyline's cluster at position p - 1 that no row of that
\* cluster exceeds in distance to the roi.
BeforeDelineation(i) == Chain(cache, BestLast(cache, rois[i], i), i)

DistancePeaks(i) ==
    LET chain == BeforeDelineation(i)
    IN  LocalMaxima([k \in 1..Len(chain) |-> Abs(chain[k].y - rois[i])])

C21_Delineation ==
    pc = "segment" =>
        \A i \in 1..n :
            LET chain == BeforeDelineation(i)
                peaks == DistancePeaks(i)
                out   == raw_signals[i]
            IN  /\ Len(out) = Len(chain)
                /\ \A p \in peaks : 1 <= p /\ p <= Len(chain) - 2
                /\ \A k \in 1..Len(chain) :
                       /\ out[k].x = chain[k].x
                       /\ (k - 1) \notin peaks => out[k].y = chain[k].y
                       /\ (k - 1) \in peaks =>
                              LET cl == chain[k - 1].cl
                              IN  /\ out[k].y \in cl[1]..cl[2]
                                  /\ \A q \in cl[1]..cl[2] :
                                         Abs(q - rois[i]) <= Abs(out[k].y - rois[i])

\* A peak whose y was moved away from the centre of its cluster.
C21_Witness ==
    /\ pc = "segment"
    /\ \E i \in 1..n : \E p \in DistancePeaks(i) :
           /\ raw_signals[i][p + 1].y # BeforeDelineation(i)[p + 1].y
           /\ \E k \in 1..Len(raw_signals[i]) :
                  k - 1 \notin DistancePeaks(i)


Populated(c) == 0 <= c /\ c < ecg.width /\ ecg.ink[c + 1] # {}

RECURSIVE PopulatedRun(_)
PopulatedRun(c) == IF Populated(c) THEN 1 + PopulatedRun(c - 1) ELSE 0

C29_Cache ==
    \A k \in 1..Len(cache) :
        LET c  == cache[k].node[1]
            cl == cache[k].node[2]
        IN  /\ Populated(c)
            /\ ~(c >= 1 /\ c <= ecg.width - 2
                    /\ ~Populated(c - 1) /\ ~Populated(c + 1))
            /\ \A i \in 1..n :
                   LET v == cache[k].vals[i]
                   IN  /\ v.len = PopulatedRun(c)
                       /\ v.prev = None <=> ~Populated(c - 1)
                       /\ v.prev = None =>
                              /\ v.y = ceil_mean(cl)
                              /\ v.len = 1
                              /\ v.score = 0
                              /\ Populated(c + 1)
                              /\ c + 1 < col

\* A cell initialised at its use in column 1, next to a column without
\* ink, and the cell of length 2 that uses it.
C29_Witness ==
    /\ \E k \in 1..Len(cache) :
           /\ cache[k].node[1] = 1
           /\ cache[k].vals[1].prev = None
    /\ \E k \in 1..Len(cache) :
           /\ cache[k].node[1] = 2
           /\ cache[k].vals[1].len = 2


\* C27: once a cut has been found and the polylines are sliced, for either
\* side of the reference pulses the waveform portion and the pulse portion
\* of every polyline have no column in common, together hold every point
\* of the polyline exactly once, and the pulse portion is not empty.
Columns(points) == {points[k].x : k \in 1..Len(points)}

ReadRows == {LeadRow(cfg, i - 1, Order(cfg)[i]) + 1 : i \in 1..12}

C28_PeakAboveBaseline ==
    (pc \in {"get_trace", "to_csv"} /\ err = "none") =>
        \A r \in ReadRows : ref_pulses[r][2] < ref_pulses[r][1]


====
